---- MODULE Spec2Model ----
(***************************************************************************)
(* EchoFix: the status-gated processing pipeline of backend/app.py,        *)
(* backend/db.py, backend/services/score_threshold.py and                  *)
(* backend/services/insight_generator.py.                                  *)
(*                                                                         *)
(* The store (tables reddit_entries, insights, repo_configs), the external *)
(* issue tracker and the handlers that act on them are modelled as a state *)
(* machine.  Every handler is cut at its store / tracker calls: one action *)
(* per call, so that overlapping requests interleave exactly where the     *)
(* code lets them.                                                         *)
(*                                                                         *)
(*   Spec          one request at a time (the single-threaded scheduling); *)
(*                 store, tracker and model calls may raise                *)
(*   OverlapSpec   two pipeline requests may overlap on the same store     *)
(*   PureSpec      the pure helpers applied to inputs from bounded sets    *)
(*   ClaimSpec     two sweeps running their claim phase over a given store *)
(*   ClaimCallSpec one call of claim_reddit_entry on a given store         *)
(*   IngestSpec    ingests and score refreshes on a given store            *)
(*   GenerateSpec  insight generation on request                           *)
(*   PublishSpec   sweeps and create-issue requests after generation on    *)
(*                 request and status updates by hand                      *)
(*   AnalysisSpec  analyze requests, sweeps and approvals with failing     *)
(*                 store calls                                             *)
(*   CommunitySpec pull requests, approval requests and the refresh of     *)
(*                 the community approvals                                 *)
(*   AutomationSpec every request handler but the ingest and the analysis  *)
(*                 rollback, one request at a time                         *)
(*   PrSpec        create-pr requests, and should_create_pr on drawn inputs*)
(*   ProgressSpec  sweep after sweep without failing calls, under weak     *)
(*                 fairness                                                *)
(*   EntrySpec     every handler that writes an entry, one request at a    *)
(*                 time                                                    *)
(***************************************************************************)
EXTENDS Integers, Sequences, FiniteSets, TLC

(***************************************************************************)
(* Bounds of the model and program constants                               *)
(***************************************************************************)
\* app.py:29  MIN_SCORE = int(os.getenv("MIN_SCORE", "2"))
MIN_SCORE == 2

\* rows of the reddit_entries table
MaxEntries == 2
\* rows of the insights table
MaxInsights == 2
\* issues the external tracker accepts before create_issue only fails
MaxIssues == 2
\* scores and thresholds the pure helpers are applied to: -1 .. MaxScore
MaxScore == 3
\* requests that start while another request is in flight, in OverlapSpec
MaxOverlaps == 1
\* store / tracker calls that raise, in Spec
MaxFaults == 2

(***************************************************************************)
(* Values                                                                  *)
(***************************************************************************)
\* Optional[int]: None is the empty tuple, a present value n is <<n>>
None == <<>>

Some(n) == <<n>>

\* models.py RedditEntryStatus
PENDING == "pending"

READY == "ready"

PROCESSING == "processing"

PROCESSED == "processed"

FAILED == "failed"

SKIPPED == "skipped"

RedditEntryStatus == {PENDING, READY, PROCESSING, PROCESSED, FAILED, SKIPPED}

\* models.py InsightStatus
I_PENDING == "i_pending"

I_ANALYZING == "i_analyzing"

I_READY == "i_ready"

I_APPROVED == "i_approved"

I_IN_PROGRESS == "i_in_progress"

I_COMPLETED == "i_completed"

I_CLOSED == "i_closed"

InsightStatus ==
    {I_PENDING, I_ANALYZING, I_READY, I_APPROVED, I_IN_PROGRESS, I_COMPLETED, I_CLOSED}

(***************************************************************************)
(* Pure helpers                                                            *)
(***************************************************************************)
\* faulty variant: the threshold test made strict
determine_entry_status_strict(score, min_score) ==
    IF score = None THEN PENDING
    ELSE IF score[1] > min_score THEN READY ELSE PENDING

\* services/score_threshold.py determine_entry_status
determine_entry_status(score, min_score) ==
    IF score = None THEN PENDING
    ELSE IF score[1] >= min_score THEN READY ELSE PENDING

\* faulty variant: READY left out of the protected statuses
resolve_entry_status_unprotected_ready(existing_status, candidate_status) ==
    IF existing_status # None /\ existing_status[1] \in {PROCESSED, SKIPPED, PROCESSING}
    THEN existing_status[1]
    ELSE candidate_status

\* app.py _resolve_entry_status; existing_status is an Optional[RedditEntryStatus]:
\* None when there is no row, Some(status) otherwise
resolve_entry_status(existing_status, candidate_status) ==
    IF /\ existing_status # None
       /\ existing_status[1] \in {PROCESSED, SKIPPED, PROCESSING, READY}
    THEN existing_status[1]
    ELSE candidate_status

\* faulty variant: the issue-url test dropped
should_process_entry_ignoring_url(entry) ==
    IF entry.status \in {PROCESSED, SKIPPED} THEN FALSE
    ELSE entry.status = READY

\* faulty variant: the switch is not looked at
should_create_pr_ignoring_switch(entry, enable_pr) == entry.github_pr_url = 0

\* services/plan_md.py:98-101  should_create_pr (github_pr_url: 0 is null)
should_create_pr(entry, enable_pr) ==
    IF ~enable_pr THEN FALSE
    ELSE entry.github_pr_url = 0

\* services/score_threshold.py should_process_entry
\* (github_issue_url: 0 is null, n > 0 is the url of issue n)
should_process_entry(entry) ==
    IF entry.github_issue_url # 0 THEN FALSE
    ELSE IF entry.status \in {PROCESSED, SKIPPED} THEN FALSE
    ELSE entry.status = READY

(***************************************************************************)
(* State                                                                   *)
(***************************************************************************)
VARIABLES
    repo_configs,    \* table repo_configs: TRUE iff a (default) row exists
    reddit_entries,  \* table reddit_entries: row id -> row
    insights,        \* table insights: row id -> row
    github_issues,   \* the external tracker: issue number -> insight it was created for
    procs,           \* the requests in flight: their position and local variables
    overlaps,        \* how many more requests may start while another is in flight
    faults,          \* how many more store / tracker calls may raise
    fnIn,            \* PureSpec: the arguments a pure helper is applied to
    fnOut            \* PureSpec: what it returned

vars == <<repo_configs, reddit_entries, insights, github_issues, procs, overlaps, faults, fnIn, fnOut>>

store == <<repo_configs, reddit_entries, insights, github_issues>>

\* the request slots: two requests may be in flight at once (a scheduled sweep and
\* a manual trigger)
Procs == {1, 2}

Rows == 1 .. MaxEntries

\* external ids of the items the platform can return
RedditIds == 1 .. MaxEntries

InsightIds == 1 .. MaxInsights

\* services/insight_generator.py THEME_RULES / _classify_entry: the theme is a
\* function of the row's title and body; the row keeps the theme its text maps to
Themes == {"Authentication Issues", "General Feedback"}

\* scores a fetch or an ingested item can carry
ScoreInputs == {None, Some(MIN_SCORE - 1), Some(MIN_SCORE)}

\* reddit_id = 0: the row does not exist
NoRow ==
    [reddit_id |-> 0, status |-> PENDING, score |-> None, checked |-> FALSE,
     github_issue_url |-> 0, insight_id |-> 0, theme |-> "General Feedback"]

\* models.py:232-236  the community approval fields of a new insight
NoCommunity ==
    [community_approval_requested |-> FALSE, community_reply_score |-> 0,
     community_approved |-> FALSE]

\* theme = "": the row does not exist
NoInsight ==
    [theme |-> "", status |-> I_PENDING, github_issue |-> 0, issue_spec |-> FALSE,
     payloads |-> None, priority |-> None, entry_count |-> 0,
     github_pr_number |-> 0, community |-> NoCommunity]

Idle == [pc |-> "idle"]

Done(op, ret) == [pc |-> "done", op |-> op, ret |-> ret]

IsIdle(p) == procs[p].pc = "idle"

\* a request that starts while another is in flight uses up one overlap
Alone(p) == \A q \in Procs \ {p} : IsIdle(q)

\* a new request takes the first free slot
CanStart(p) ==
    /\ IsIdle(p)
    /\ \A q \in Procs : IsIdle(q) => p <= q
    /\ Alone(p) \/ overlaps > 0

Started(p) == overlaps' = IF Alone(p) THEN overlaps ELSE overlaps - 1

ExistingRows == {r \in Rows : reddit_entries[r].reddit_id # 0}

FreeRows == Rows \ ExistingRows

ExistingInsights == {i \in InsightIds : insights[i].theme # ""}

FreeInsights == InsightIds \ ExistingInsights

Min(S) == CHOOSE x \in S : \A y \in S : x <= y

StoreInit ==
    /\ repo_configs = FALSE
    /\ reddit_entries = [r \in Rows |-> NoRow]
    /\ insights = [i \in InsightIds |-> NoInsight]
    /\ github_issues = <<>>

NoCall == [fn |-> "none"]

Unset == <<>>

\* one request at a time (the single-threaded, synchronous scheduling); calls to
\* the store and to the tracker may raise
Init ==
    /\ StoreInit
    /\ procs = [p \in Procs |-> Idle]
    /\ overlaps = 0
    /\ faults = MaxFaults
    /\ fnIn = NoCall
    /\ fnOut = Unset

\* two requests may overlap on the same store (a manual trigger overlapping a
\* scheduled one); no call raises
OverlapInit ==
    /\ StoreInit
    /\ procs = [p \in Procs |-> Idle]
    /\ overlaps = MaxOverlaps
    /\ faults = 0
    /\ fnIn = NoCall
    /\ fnOut = Unset

(***************************************************************************)
(* db.py: the queries                                                      *)
(***************************************************************************)
\* db.get_reddit_entry_by_reddit_id: the rows a limit(1) lookup may return
get_reddit_entry_by_reddit_id(reddit_id) ==
    {r \in ExistingRows : reddit_entries[r].reddit_id = reddit_id}

\* db.get_reddit_entries_by_status
get_reddit_entries_by_status(status) ==
    {r \in ExistingRows : reddit_entries[r].status = status}

\* db.get_ready_reddit_entries
get_ready_reddit_entries ==
    {r \in ExistingRows :
        /\ reddit_entries[r].status = READY
        /\ reddit_entries[r].github_issue_url = 0}

\* db.get_reddit_entries_by_insight
get_reddit_entries_by_insight(insight_id) ==
    {r \in ExistingRows : reddit_entries[r].insight_id = insight_id}

\* db.get_insights_by_status
get_insights_by_status(status) ==
    {i \in ExistingInsights : insights[i].status = status}

\* db.search_insights(repo_config_id, theme): no theme is a substring of another
\* theme or of a description, so the ilike match is equality of themes
search_insights(theme) ==
    {i \in ExistingInsights : insights[i].theme = theme}

(***************************************************************************)
(* POST /api/repo-configs                                                  *)
(***************************************************************************)
\* app.py create_repo_config / db.create_repo_config
CreateRepoConfig(p) ==
    /\ CanStart(p)
    /\ Started(p)
    /\ ~repo_configs
    /\ repo_configs' = TRUE
    /\ UNCHANGED <<reddit_entries, insights, github_issues, procs, faults, fnIn, fnOut>>

(***************************************************************************)
(* Ingestion: app.py ingest_reddit -> _upsert_reddit_entry                 *)
(***************************************************************************)
\* app.py:124-130  the lookup and the status resolution.  The item fetched for a
\* reddit_id carries the text (hence the theme) the platform holds for it: the one
\* already stored when the item was ingested before
UpsertRead(p) ==
    /\ CanStart(p)
    /\ Started(p)
    /\ repo_configs
    /\ \E reddit_id \in RedditIds, score \in ScoreInputs :
        LET found == get_reddit_entry_by_reddit_id(reddit_id)
            candidate_status == determine_entry_status(score, MIN_SCORE)
        IN  \/ /\ found = {}
               /\ \E theme \in Themes :
                    procs' = [procs EXCEPT ![p] =
                        [pc |-> "upsert_write", reddit_id |-> reddit_id, score |-> score,
                         theme |-> theme, existing |-> 0,
                         status |-> resolve_entry_status(None, candidate_status)]]
            \/ \E r \in found :
                procs' = [procs EXCEPT ![p] =
                    [pc |-> "upsert_write", reddit_id |-> reddit_id, score |-> score,
                     theme |-> reddit_entries[r].theme, existing |-> r,
                     status |-> resolve_entry_status(Some(reddit_entries[r].status),
                                                     candidate_status)]]
    /\ UNCHANGED <<store, faults, fnIn, fnOut>>

\* faulty variant: the score columns are written whatever the incoming score is
upsert_updates_overwriting(row, entry, status) ==
    [row EXCEPT !.theme = entry.theme,
                !.status = status,
                !.score = entry.score,
                !.checked = (entry.score # None)]

\* app.py:132-147  the row after update_reddit_entry(existing.id, updates): title
\* and body (hence the theme) and status always, score and last_score_check_at
\* only when the item carries a score
upsert_updates(row, entry, status) ==
    [row EXCEPT !.theme = entry.theme,
                !.status = status,
                !.score = IF entry.score # None THEN entry.score ELSE @,
                !.checked = IF entry.score # None THEN TRUE ELSE @]

\* faulty variant: last_score_check_at is set on every insert
entry_data_always_checked(entry, status) ==
    [reddit_id |-> entry.reddit_id, status |-> status, score |-> entry.score,
     checked |-> TRUE, github_issue_url |-> 0,
     insight_id |-> 0, theme |-> entry.theme]

\* app.py:151-155  the row handed to create_reddit_entry
entry_data(entry, status) ==
    [reddit_id |-> entry.reddit_id, status |-> status, score |-> entry.score,
     checked |-> (entry.score # None), github_issue_url |-> 0,
     insight_id |-> 0, theme |-> entry.theme]

\* app.py:132-157  update of the existing row, or insert of a new one
UpsertWrite(p) ==
    LET l == procs[p] IN
    /\ l.pc = "upsert_write"
    /\ IF l.existing # 0
       THEN /\ reddit_entries' = [reddit_entries EXCEPT ![l.existing] =
                upsert_updates(@, l, l.status)]
            /\ procs' = [procs EXCEPT ![p] =
                Done("upsert", [entry |-> l.existing, created |-> FALSE])]
       ELSE /\ FreeRows # {}
            /\ LET r == Min(FreeRows) IN
                /\ reddit_entries' = [reddit_entries EXCEPT ![r] =
                    entry_data(l, l.status)]
                /\ procs' = [procs EXCEPT ![p] =
                    Done("upsert", [entry |-> r, created |-> TRUE])]
    /\ UNCHANGED <<repo_configs, insights, github_issues, overlaps, faults, fnIn, fnOut>>

(***************************************************************************)
(* Score refresh: app.py _refresh_pending_scores                           *)
(***************************************************************************)
\* what follows _refresh_pending_scores: POST /api/reddit/refresh-scores returns
\* its report (pipeline = FALSE); auto_process_pipeline and auto_process_ready
\* (app.py:1046-1056, 1079-1081) go on with _process_ready_workflow in the same
\* request (pipeline = TRUE).  Which endpoint the request came through shows only
\* here, so the choice is drawn here
AfterRefresh(pipeline, report) ==
    IF pipeline THEN [pc |-> "sweep_read"] ELSE Done("refresh", report)

\* faulty variant: only the entries that became READY are reported as updated
refresh_report_ready_only(pending_checked, updated, ready) ==
    [pending_checked |-> pending_checked, updated |-> ready, ready |-> ready,
     skipped_recent |-> updated - ready]

\* app.py:417-423, 461-466  the report: skipped_recent is set to 0 at app.py:427
\* and never written again, should_refresh_score is not called
refresh_report(pending_checked, updated, ready) ==
    [pending_checked |-> pending_checked, updated |-> updated, ready |-> ready,
     skipped_recent |-> 0]

\* app.py:411-427  the PENDING rows are read once
RefreshRead(p) ==
    /\ CanStart(p)
    /\ Started(p)
    /\ LET entries == get_reddit_entries_by_status(PENDING) IN
        IF entries = {}
        THEN \E pipeline \in BOOLEAN :
                procs' = [procs EXCEPT ![p] =
                    AfterRefresh(pipeline, refresh_report(0, 0, 0))]
        ELSE procs' = [procs EXCEPT ![p] =
                [pc |-> "refresh_entry", todo |-> entries,
                 pending_checked |-> Cardinality(entries), updated |-> 0, ready |-> 0]]
    /\ UNCHANGED <<store, faults, fnIn, fnOut>>

\* faulty variant: every entry that got a score is counted
counts_as_ready_any_score(score, new_status) == score # None

\* app.py:444-448  whether the turn adds one to the 'ready' counter
counts_as_ready(score, new_status) == score # None /\ new_status = READY

\* faulty variant: the secondary fetcher is asked first
fetch_entry_score_secondary_first(primary, secondary) ==
    IF secondary # None
    THEN [score |-> secondary, calls |-> <<"reddit_json_client">>]
    ELSE [score |-> primary, calls |-> <<"reddit_json_client", "reddit_client">>]

\* app.py:432-437  the score of one entry: reddit_client.fetch_entry_score answers
\* primary (None in demo mode, reddit_client.py:238, where app.py:433 leaves the
\* call out), reddit_json_client.fetch_entry_score answers secondary and is asked
\* only on None; calls are the fetchers asked, in their order
fetch_entry_score(primary, secondary) ==
    IF primary # None
    THEN [score |-> primary, calls |-> <<"reddit_client">>]
    ELSE [score |-> secondary, calls |-> <<"reddit_client", "reddit_json_client">>]

\* faulty variant: score and status are written whatever the fetchers answered
refresh_updates_unconditional(row, score) ==
    [row EXCEPT !.checked = TRUE, !.score = score,
                !.status = determine_entry_status(score, MIN_SCORE)]

\* app.py:439-450  the update of the row: last_score_check_at always, score and
\* status when a score was obtained
refresh_updates(row, score) ==
    [row EXCEPT !.checked = TRUE,
                !.score = IF score # None THEN score ELSE @,
                !.status = IF score # None
                           THEN determine_entry_status(score, MIN_SCORE) ELSE @]

\* app.py:429-451  one turn of the loop: primary fetcher, secondary fetcher on
\* None, then the unconditional update of the row
RefreshEntry(p) ==
    LET l == procs[p] IN
    /\ l.pc = "refresh_entry"
    /\ \E r \in l.todo, primary \in ScoreInputs, secondary \in ScoreInputs :
        LET score == fetch_entry_score(primary, secondary).score
            new_status == determine_entry_status(score, MIN_SCORE)
            updated == l.updated + 1
            ready == IF counts_as_ready(score, new_status) THEN l.ready + 1 ELSE l.ready
            todo == l.todo \ {r}
        IN  /\ reddit_entries' = [reddit_entries EXCEPT ![r] = refresh_updates(@, score)]
            /\ IF todo = {}
               THEN \E pipeline \in BOOLEAN :
                        procs' = [procs EXCEPT ![p] =
                            AfterRefresh(pipeline,
                                         refresh_report(l.pending_checked, updated,
                                                        ready))]
               ELSE procs' = [procs EXCEPT ![p] =
                        [l EXCEPT !.todo = todo, !.updated = updated, !.ready = ready]]
    /\ UNCHANGED <<repo_configs, insights, github_issues, overlaps, faults, fnIn, fnOut>>

\* the response is sent; the request is over
Return(p) ==
    /\ procs[p].pc = "done"
    /\ procs' = [procs EXCEPT ![p] = Idle]
    /\ UNCHANGED <<store, overlaps, faults, fnIn, fnOut>>

(***************************************************************************)
(* Pipeline sweep: app.py _process_ready_workflow                          *)
(***************************************************************************)
\* faulty variant: the status test dropped from the WHERE clause
claim_condition_url_only(row) == row.github_issue_url = 0

\* faulty variant: the issue-url test dropped from the WHERE clause
claim_condition_status_only(row) == row.status = READY

\* db.py:109-119  the WHERE clause of claim_reddit_entry
claim_condition(row) ==
    /\ row.status = READY
    /\ row.github_issue_url = 0

\* app.py:580-581  the READY rows without an issue are read once: at the start of
\* a request (auto_process_pipeline with refresh_scores=false) or after the refresh
SweepRead(p) ==
    /\ \/ CanStart(p) /\ Started(p)
       \/ procs[p].pc = "sweep_read" /\ UNCHANGED overlaps
    /\ LET entries == get_ready_reddit_entries IN
        procs' = [procs EXCEPT ![p] =
            IF entries = {}
            THEN [pc |-> "sweep_config", entries |-> {}, claimed |-> {}]
            ELSE [pc |-> "sweep_claim", entries |-> entries, todo |-> entries,
                  claimed |-> {}]]
    /\ UNCHANGED <<store, faults, fnIn, fnOut>>

\* app.py:583-588  one turn of the claim loop on a row of the snapshot
SweepClaim(p) ==
    LET l == procs[p] IN
    /\ l.pc = "sweep_claim"
    /\ \E r \in l.todo :
        LET snapshot == [status |-> READY, github_issue_url |-> 0]
            won == should_process_entry(snapshot) /\ claim_condition(reddit_entries[r])
            claimed == IF won THEN l.claimed \cup {<<r, reddit_entries[r].theme>>}
                       ELSE l.claimed
            todo == l.todo \ {r}
        IN  /\ reddit_entries' =
                IF won THEN [reddit_entries EXCEPT ![r].status = PROCESSING]
                ELSE reddit_entries
            /\ procs' = [procs EXCEPT ![p] =
                IF todo = {}
                THEN [pc |-> "sweep_config", entries |-> l.entries, claimed |-> claimed]
                ELSE [l EXCEPT !.todo = todo, !.claimed = claimed]]
    /\ UNCHANGED <<repo_configs, insights, github_issues, overlaps, faults, fnIn, fnOut>>

\* app.py:590-598  the repository configuration is looked up after the claims
SweepConfig(p) ==
    LET l == procs[p] IN
    /\ l.pc = "sweep_config"
    /\ procs' = [procs EXCEPT ![p] =
        IF ~repo_configs
        THEN Done("sweep", [error |-> "No repository configured"])
        ELSE IF l.claimed # {}
        THEN [pc |-> "cluster_search", op |-> "sweep", groups |-> l.claimed]
        ELSE [pc |-> "sweep_pending"]]
    /\ UNCHANGED <<store, overlaps, faults, fnIn, fnOut>>

(***************************************************************************)
(* Clustering: services/insight_generator.py generate_insights_from_entries*)
(***************************************************************************)
\* insight_generator.py:74-75  search for an insight of the next theme
ClusterSearch(p) ==
    LET l == procs[p] IN
    /\ l.pc = "cluster_search"
    /\ \E g \in l.groups :
        LET theme == g[2]
            found == search_insights(theme)
        IN  \/ /\ found = {}
               /\ procs' = [procs EXCEPT ![p] =
                    [pc |-> "cluster_write", op |-> l.op, groups |-> l.groups, theme |-> theme,
                     existing |-> 0, entry_count |-> 0]]
            \/ \E i \in found :
                procs' = [procs EXCEPT ![p] =
                    [pc |-> "cluster_write", op |-> l.op, groups |-> l.groups, theme |-> theme,
                     existing |-> i, entry_count |-> insights[i].entry_count]]
    /\ UNCHANGED <<store, overlaps, faults, fnIn, fnOut>>

\* insight_generator.py:77-95  the insight found is updated, or one is created
ClusterWrite(p) ==
    LET l == procs[p]
        new_count == Cardinality({g \in l.groups : g[2] = l.theme})
    IN
    /\ l.pc = "cluster_write"
    /\ IF l.existing # 0
       THEN /\ insights' = [insights EXCEPT ![l.existing].entry_count =
                                l.entry_count + new_count]
            /\ procs' = [procs EXCEPT ![p] =
                [pc |-> "cluster_entry", op |-> l.op, groups |-> l.groups, theme |-> l.theme,
                 insight |-> l.existing]]
       ELSE /\ FreeInsights # {}
            /\ LET i == Min(FreeInsights) IN
                /\ insights' = [insights EXCEPT ![i] =
                    [theme |-> l.theme, status |-> I_PENDING, github_issue |-> 0,
                     issue_spec |-> FALSE, payloads |-> None, priority |-> None,
                     entry_count |-> new_count, github_pr_number |-> 0,
                     community |-> NoCommunity]]
                /\ procs' = [procs EXCEPT ![p] =
                    [pc |-> "cluster_entry", op |-> l.op, groups |-> l.groups, theme |-> l.theme,
                     insight |-> i]]
    /\ UNCHANGED <<repo_configs, reddit_entries, github_issues, overlaps, faults, fnIn, fnOut>>

\* where the caller of generate_insights_from_entries goes on: the sweep reads
\* the PENDING insights (app.py:608), POST /api/insights/generate returns the
\* result (app.py:1150-1153)
AfterCluster(op) ==
    IF op = "generate"
    THEN Done("generate", [error |-> ""])
    ELSE [pc |-> "sweep_pending"]

\* insight_generator.py:97-102  one entry of the group is attached to the insight
\* (an unconditional update of insight_id and status)
ClusterEntry(p) ==
    LET l == procs[p] IN
    /\ l.pc = "cluster_entry"
    /\ \E g \in {h \in l.groups : h[2] = l.theme} :
        LET groups == l.groups \ {g} IN
        /\ reddit_entries' = [reddit_entries EXCEPT ![g[1]] =
            [@ EXCEPT !.insight_id = l.insight, !.status = PROCESSING]]
        /\ procs' = [procs EXCEPT ![p] =
            IF groups = {}
            THEN AfterCluster(l.op)
            ELSE IF \E h \in groups : h[2] = l.theme
            THEN [l EXCEPT !.groups = groups]
            ELSE [pc |-> "cluster_search", op |-> l.op, groups |-> groups]]
    /\ UNCHANGED <<repo_configs, insights, github_issues, overlaps, faults, fnIn, fnOut>>

(***************************************************************************)
(* Analysis of the PENDING insights: app.py:608-640                        *)
(***************************************************************************)
\* what a handler keeps of an insight row it has read
InsightSnapshot(i) ==
    [id |-> i, github_issue |-> insights[i].github_issue,
     issue_spec |-> insights[i].issue_spec]

\* app.py:608  the PENDING insights are read once
SweepPending(p) ==
    /\ procs[p].pc = "sweep_pending"
    /\ LET pending == {InsightSnapshot(i) : i \in get_insights_by_status(I_PENDING)} IN
        procs' = [procs EXCEPT ![p] =
            IF pending = {}
            THEN [pc |-> "sweep_ready"]
            ELSE [pc |-> "analyze", pending |-> pending]]
    /\ UNCHANGED <<store, overlaps, faults, fnIn, fnOut>>

\* app.py:609-622  one turn of the loop up to the write of ANALYZING
AnalyzeBegin(p) ==
    LET l == procs[p] IN
    /\ l.pc = "analyze"
    /\ \E insight \in l.pending :
        LET pending == l.pending \ {insight}
            skip == \/ insight.github_issue # 0
                    \/ get_reddit_entries_by_insight(insight.id) = {}
        IN  IF skip
            THEN /\ procs' = [procs EXCEPT ![p] =
                        IF pending = {}
                        THEN [pc |-> "sweep_ready"]
                        ELSE [l EXCEPT !.pending = pending]]
                 /\ UNCHANGED insights
            ELSE /\ insights' = [insights EXCEPT ![insight.id].status = I_ANALYZING]
                 /\ procs' = [procs EXCEPT ![p] =
                        [pc |-> "analyze_write", pending |-> pending,
                         insight |-> insight.id]]
    /\ UNCHANGED <<repo_configs, reddit_entries, github_issues, overlaps, faults, fnIn, fnOut>>

\* what the model call of an enrichment step returns when it succeeds
Generated == "generated"

EnrichmentSteps == {"summary", "issue_spec", "patch_plan"}

\* gemini_client.py:158-191  analyze_insight: the model's summary, or the default
\* summary when the call or the parsing of its answer raises.  The model's answers
\* are one fixed summary of severity HIGH and one fixed issue spec of priority
\* LOW; the defaults are MEDIUM and the summary's severity.
analyze_insight(insight, ok) ==
    IF ok
    THEN [theme |-> Generated, user_impact |-> Generated, severity |-> "high"]
    ELSE [theme |-> insight.theme, user_impact |-> "Unknown", severity |-> "medium"]

\* faulty variant: no default issue spec
generate_issue_spec_no_fallback(insight, summary, ok) ==
    IF ok
    THEN [title |-> Generated, user_impact |-> Generated,
          acceptance_criteria |-> <<Generated>>, priority |-> "low"]
    ELSE [title |-> "", user_impact |-> "", acceptance_criteria |-> <<>>,
          priority |-> "medium"]

\* gemini_client.py:270-310  generate_issue_spec: the model's issue spec, or the
\* default one
generate_issue_spec(insight, summary, ok) ==
    IF ok
    THEN [title |-> Generated, user_impact |-> Generated,
          acceptance_criteria |-> <<Generated>>, priority |-> "low"]
    ELSE [title |-> summary.theme, user_impact |-> summary.user_impact,
          acceptance_criteria |-> <<"Issue is resolved">>,
          priority |-> summary.severity]

\* gemini_client.py:367-390  generate_patch_plan: the model's plan, or the default
\* one
generate_patch_plan(issue_spec, ok) ==
    IF ok
    THEN [summary |-> Generated]
    ELSE [summary |-> "Implement fix for issue"]

\* app.py:624-631  the three enrichment calls in their order; failed holds the
\* steps whose model call raises inside its enricher
enrich(insight, failed) ==
    LET summary == analyze_insight(insight, "summary" \notin failed)
        issue_spec == generate_issue_spec(insight, summary, "issue_spec" \notin failed)
        patch_plan == generate_patch_plan(issue_spec, "patch_plan" \notin failed)
    IN  [summary |-> summary, issue_spec |-> issue_spec, patch_plan |-> patch_plan]

\* faulty variant: the analysis approves the insight itself
analysis_updates_approving(row, payloads) ==
    [row EXCEPT !.issue_spec = TRUE, !.payloads = Some(payloads),
                !.priority = Some(payloads.issue_spec.priority), !.status = I_APPROVED]

\* faulty variant: the priority is the summary's severity
analysis_updates_summary_severity(row, payloads) ==
    [row EXCEPT !.issue_spec = TRUE, !.payloads = Some(payloads),
                !.priority = Some(payloads.summary.severity), !.status = I_READY]

\* faulty variant: the analysed insight is handed back as PENDING
analysis_updates_back_to_pending(row, payloads) ==
    [row EXCEPT !.issue_spec = TRUE, !.payloads = Some(payloads),
                !.priority = Some(payloads.issue_spec.priority), !.status = I_PENDING]

\* app.py:633-639  summary, issue spec, patch plan, priority and status READY in
\* one update
analysis_updates(row, payloads) ==
    [row EXCEPT !.issue_spec = TRUE, !.payloads = Some(payloads),
                !.priority = Some(payloads.issue_spec.priority), !.status = I_READY]

\* app.py:624-640  the enrichment calls and the update of the insight, or the
\* update raises: nothing in _process_ready_workflow catches it
AnalyzeWrite(p) ==
    LET l == procs[p] IN
    /\ l.pc = "analyze_write"
    /\ \/ /\ \E failed \in SUBSET EnrichmentSteps :
                /\ Cardinality(failed) <= faults
                /\ faults' = faults - Cardinality(failed)
                /\ insights' = [insights EXCEPT ![l.insight] =
                        analysis_updates(@, enrich(@, failed))]
          /\ procs' = [procs EXCEPT ![p] =
                IF l.pending = {}
                THEN [pc |-> "sweep_ready"]
                ELSE [pc |-> "analyze", pending |-> l.pending]]
       \/ /\ faults > 0
          /\ faults' = faults - 1
          /\ procs' = [procs EXCEPT ![p] = Done("sweep", [error |-> "exception"])]
          /\ UNCHANGED insights
    /\ UNCHANGED <<repo_configs, reddit_entries, github_issues, overlaps, fnIn, fnOut>>

(***************************************************************************)
(* Publishing: app.py _create_issue_for_insight                            *)
(***************************************************************************)
NoExisting == [source |-> "none"]

\* faulty variant: only the insight's own link is looked at
get_existing_issue_info_insight_only(insight, entries) ==
    IF insight.github_issue # 0
    THEN [source |-> "insight", issue_number |-> insight.github_issue,
          issue_url |-> insight.github_issue]
    ELSE NoExisting

\* faulty variant: no link is ever found
get_existing_issue_info_never(insight, entries) == NoExisting

\* app.py _get_existing_issue_info(insight, reddit_entries): insight is the row as
\* the caller read it, entries the rows it read for it
get_existing_issue_info(insight, entries) ==
    IF insight.github_issue # 0
    THEN [source |-> "insight", issue_number |-> insight.github_issue,
          issue_url |-> insight.github_issue]
    ELSE IF \E r \in entries : reddit_entries[r].github_issue_url # 0
    THEN LET r == Min({q \in entries : reddit_entries[q].github_issue_url # 0}) IN
         [source |-> "entry", issue_number |-> 0,
          issue_url |-> reddit_entries[r].github_issue_url]
    ELSE NoExisting

\* _create_issue_for_insight goes on to the tracker call
NoReturn == [returns |-> FALSE, issue |-> 0, existing |-> NoExisting]

\* faulty variant: the issue-spec test dropped
early_return_without_spec_test(insight, entries) ==
    LET existing == get_existing_issue_info(insight, entries) IN
    IF existing # NoExisting
    THEN [returns |-> TRUE, issue |-> 0, existing |-> existing]
    ELSE NoReturn

\* app.py:315-321  what _create_issue_for_insight returns before any call to the
\* tracker: the existing link, or issue = None and existing = None when the
\* insight has no issue spec
early_return(insight, entries) ==
    LET existing == get_existing_issue_info(insight, entries) IN
    IF existing # NoExisting
    THEN [returns |-> TRUE, issue |-> 0, existing |-> existing]
    ELSE IF ~insight.issue_spec
    THEN [returns |-> TRUE, issue |-> 0, existing |-> NoExisting]
    ELSE NoReturn

\* the loop of app.py:643 goes on with the next READY insight, or the sweep returns
NextPublish(ready) ==
    IF ready = {}
    THEN Done("sweep", [error |-> ""])
    ELSE [pc |-> "publish", ready |-> ready]

\* faulty variant: a sweep swallows the exception and goes on with its loop
Abort_swallowed(l) ==
    IF l.op = "sweep"
    THEN IF l.ready = {} THEN Done("sweep", [error |-> ""])
         ELSE [pc |-> "publish", ready |-> l.ready]
    ELSE Done(l.op, [error |-> "exception"])

\* what a request does when an exception leaves _create_issue_for_insight: neither
\* _process_ready_workflow nor create_github_issue catches it before the endpoint
Abort(l) == Done(l.op, [error |-> "exception"])

\* a call of p raises
Raise(p) ==
    /\ faults > 0
    /\ faults' = faults - 1
    /\ procs' = [procs EXCEPT ![p] = Abort(procs[p])]

\* app.py:642  the READY insights are read once
SweepReady(p) ==
    /\ procs[p].pc = "sweep_ready"
    /\ procs' = [procs EXCEPT ![p] =
        NextPublish({InsightSnapshot(i) : i \in get_insights_by_status(I_READY)})]
    /\ UNCHANGED <<store, overlaps, faults, fnIn, fnOut>>

\* app.py:643-655 with app.py:315-321  one turn of the loop: the entries are read,
\* then the existing-link check and the issue-spec check of _create_issue_for_insight
PublishBegin(p) ==
    LET l == procs[p] IN
    /\ l.pc = "publish"
    /\ \E insight \in l.ready :
        LET ready == l.ready \ {insight}
            entries == get_reddit_entries_by_insight(insight.id)
            result == early_return(insight, entries)
        IN  procs' = [procs EXCEPT ![p] =
                IF entries = {} \/ result.returns
                THEN NextPublish(ready)
                ELSE [pc |-> "create_issue", op |-> "sweep", ready |-> ready,
                      insight |-> insight.id, entries |-> entries]]
    /\ UNCHANGED <<store, overlaps, faults, fnIn, fnOut>>

\* app.py create_github_issue (POST /api/github/create-issue) up to its call of
\* _create_issue_for_insight, and that call's own checks (app.py:315-321)
ManualCreateIssue(p) ==
    /\ CanStart(p)
    /\ Started(p)
    /\ \E i \in ExistingInsights :
        LET insight == InsightSnapshot(i)
            entries == get_reddit_entries_by_insight(i)
            existing == get_existing_issue_info(insight, entries)
        IN  procs' = [procs EXCEPT ![p] =
                IF existing # NoExisting
                THEN Done("manual", [error |-> "", issue |-> 0, existing |-> existing,
                                     insight |-> i])
                ELSE IF ~repo_configs
                THEN Done("manual", [error |-> "Repository config not found", insight |-> i])
                ELSE IF ~insight.issue_spec
                THEN Done("manual", [error |-> "Issue spec not generated", insight |-> i])
                ELSE IF early_return(insight, entries).returns
                THEN Done("manual", [error |-> "Issue creation skipped", insight |-> i])
                ELSE [pc |-> "create_issue", op |-> "manual", ready |-> {},
                      insight |-> i, entries |-> entries]]
    /\ UNCHANGED <<store, faults, fnIn, fnOut>>

\* app.py:357-363  github_client.create_issue: the tracker creates the issue, or
\* the call raises
CreateIssue(p) ==
    LET l == procs[p] IN
    /\ l.pc = "create_issue"
    /\ \/ /\ Len(github_issues) < MaxIssues
          /\ github_issues' = Append(github_issues, l.insight)
          /\ procs' = [procs EXCEPT ![p] =
                [pc |-> "persist_issue", op |-> l.op, ready |-> l.ready,
                 insight |-> l.insight, issue |-> Len(github_issues) + 1,
                 primary_entry |-> l.entries # {}]]
          /\ UNCHANGED faults
       \/ Raise(p) /\ UNCHANGED github_issues
    /\ UNCHANGED <<repo_configs, reddit_entries, insights, overlaps, fnIn, fnOut>>

\* faulty variant: the link is not written on the insight
update_insight_github_info_dropped(row, issue) == row

\* db.py:238-262  update_insight_github_info: issue number and url on the insight
update_insight_github_info(row, issue) == [row EXCEPT !.github_issue = issue]

\* app.py:365-370  db.update_insight_github_info, or the update raises
PersistIssue(p) ==
    LET l == procs[p] IN
    /\ l.pc = "persist_issue"
    /\ \/ /\ insights' = [insights EXCEPT ![l.insight] =
                    update_insight_github_info(@, l.issue)]
          /\ procs' = [procs EXCEPT ![p] = [l EXCEPT !.pc = "mark_read"]]
          /\ UNCHANGED faults
       \/ Raise(p) /\ UNCHANGED insights
    /\ UNCHANGED <<repo_configs, reddit_entries, github_issues, overlaps, fnIn, fnOut>>

\* app.py:31  ENABLE_PLAN_MD = os.getenv("ENABLE_PLAN_MD", "true")
ENABLE_PLAN_MD == TRUE

\* app.py:32  ENABLE_PR_AUTOMATION, switched on: with its default "false" no
\* branch is created and no plan file is uploaded
ENABLE_PR_AUTOMATION == TRUE

\* the tracker calls of _ensure_plan_and_pr
PlanSteps == {"create_branch", "upsert_file"}

\* app.py:372  plan_metadata = {} when the caller read no entry
NoPlan == [raised |-> FALSE, plan_md_path |-> FALSE, plan_md_sha |-> FALSE]

\* faulty variant: a failing branch creation or upload leaves the function
ensure_plan_and_pr_raising(failed) ==
    [raised |-> failed # {}, plan_md_path |-> TRUE,
     plan_md_sha |-> ENABLE_PR_AUTOMATION /\ "upsert_file" \notin failed]

\* app.py:216-290  _ensure_plan_and_pr: failed holds the tracker calls that
\* raise; both are caught (app.py:256, 276), the path is always set, the sha is
\* set when the upload succeeded
ensure_plan_and_pr(failed) ==
    IF ~ENABLE_PLAN_MD /\ ~ENABLE_PR_AUTOMATION
    THEN NoPlan
    ELSE [raised |-> FALSE, plan_md_path |-> TRUE,
          plan_md_sha |-> ENABLE_PR_AUTOMATION /\ "upsert_file" \notin failed]

\* app.py:372-384  _ensure_plan_and_pr for the first entry the caller read, then
\* db.mark_reddit_entries_processed_for_insight, db.py:145: the entries of the
\* insight are read again
MarkRead(p) ==
    LET l == procs[p] IN
    /\ l.pc = "mark_read"
    /\ \E failed \in SUBSET PlanSteps :
        LET plan_metadata ==
                IF l.primary_entry /\ (ENABLE_PLAN_MD \/ ENABLE_PR_AUTOMATION)
                THEN ensure_plan_and_pr(failed)
                ELSE NoPlan
            todo == get_reddit_entries_by_insight(l.insight)
        IN  /\ Cardinality(failed) <= faults
            /\ failed # {} =>
                    (l.primary_entry /\ ENABLE_PR_AUTOMATION)
            /\ faults' = faults - Cardinality(failed)
            /\ procs' = [procs EXCEPT ![p] =
                    IF plan_metadata.raised
                    THEN Abort(l)
                    ELSE IF todo = {}
                    THEN [pc |-> "advance", op |-> l.op, ready |-> l.ready,
                          insight |-> l.insight, issue |-> l.issue,
                          plan_metadata |-> plan_metadata]
                    ELSE [pc |-> "mark_entry", op |-> l.op, ready |-> l.ready,
                          insight |-> l.insight, issue |-> l.issue, todo |-> todo,
                          plan_metadata |-> plan_metadata]]
    /\ UNCHANGED <<store, overlaps, fnIn, fnOut>>

\* faulty variant: the issue url is not stamped on the entry
mark_processed_without_url(row, github_issue_url) == [row EXCEPT !.status = PROCESSED]

\* db.py:150-155  the updates written on one entry of the insight
mark_processed(row, github_issue_url) ==
    [row EXCEPT !.status = PROCESSED, !.github_issue_url = github_issue_url]

\* db.py:149-166  one entry is marked PROCESSED with the issue url, or the update
\* raises
MarkEntry(p) ==
    LET l == procs[p] IN
    /\ l.pc = "mark_entry"
    /\ \/ \E r \in l.todo :
            LET todo == l.todo \ {r} IN
            /\ reddit_entries' = [reddit_entries EXCEPT ![r] = mark_processed(@, l.issue)]
            /\ procs' = [procs EXCEPT ![p] =
                IF todo = {}
                THEN [pc |-> "advance", op |-> l.op, ready |-> l.ready,
                      insight |-> l.insight, issue |-> l.issue,
                      plan_metadata |-> l.plan_metadata]
                ELSE [l EXCEPT !.todo = todo]]
            /\ UNCHANGED faults
       \/ Raise(p) /\ UNCHANGED reddit_entries
    /\ UNCHANGED <<repo_configs, insights, github_issues, overlaps, fnIn, fnOut>>

\* app.py:396-406  db.update_insight_status(IN_PROGRESS) and the return of the
\* created issue, or the update raises
Advance(p) ==
    LET l == procs[p] IN
    /\ l.pc = "advance"
    /\ \/ /\ insights' = [insights EXCEPT ![l.insight].status = I_IN_PROGRESS]
          /\ procs' = [procs EXCEPT ![p] =
                IF l.op = "manual"
                THEN Done("manual", [error |-> "", issue |-> l.issue,
                                     existing |-> NoExisting, insight |-> l.insight,
                                     plan_metadata |-> l.plan_metadata])
                ELSE NextPublish(l.ready)]
          /\ UNCHANGED faults
       \/ Raise(p) /\ UNCHANGED insights
    /\ UNCHANGED <<repo_configs, reddit_entries, github_issues, overlaps, fnIn, fnOut>>

(***************************************************************************)
(* Human approval: app.py approve_workflow                                 *)
(***************************************************************************)
\* app.py:1508-1563  POST /api/workflows/approve: a human approves or rejects an
\* insight; the status is written whatever the insight's current status is
ApproveWorkflow(p) ==
    /\ CanStart(p)
    /\ Started(p)
    /\ \E i \in ExistingInsights, action \in {"approve", "reject"} :
        /\ insights' = [insights EXCEPT ![i].status =
                IF action = "approve" THEN I_APPROVED ELSE I_CLOSED]
        /\ procs' = [procs EXCEPT ![p] =
                Done("approve", [error |-> "", insight |-> i, action |-> action])]
    /\ UNCHANGED <<repo_configs, reddit_entries, github_issues, faults, fnIn, fnOut>>

(***************************************************************************)
(* Analysis on request: app.py analyze_insight_with_gemini                 *)
(***************************************************************************)
\* app.py:1169-1198  POST /api/gemini/analyze/<id>: the insight and its entries
\* are read, a linked insight is answered "Issue already created", any other one
\* is written ANALYZING whatever its status is
AnalyzeRequest(p) ==
    /\ CanStart(p)
    /\ Started(p)
    /\ \E i \in ExistingInsights :
        LET existing == get_existing_issue_info(InsightSnapshot(i),
                                               get_reddit_entries_by_insight(i))
        IN  IF existing # NoExisting
            THEN /\ procs' = [procs EXCEPT ![p] =
                        Done("analyze", [error |-> "", existing |-> existing,
                                         insight |-> i])]
                 /\ UNCHANGED insights
            ELSE /\ insights' = [insights EXCEPT ![i].status = I_ANALYZING]
                 /\ procs' = [procs EXCEPT ![p] =
                        [pc |-> "analyze_request_write", insight |-> i]]
    /\ UNCHANGED <<repo_configs, reddit_entries, github_issues, faults, fnIn, fnOut>>

\* app.py:1201-1233  the enrichment calls and the update of the insight, or the
\* update raises into the handler of app.py:1235
AnalyzeRequestWrite(p) ==
    LET l == procs[p] IN
    /\ l.pc = "analyze_request_write"
    /\ \/ /\ \E failed \in SUBSET EnrichmentSteps :
                /\ Cardinality(failed) <= faults
                /\ faults' = faults - Cardinality(failed)
                /\ insights' = [insights EXCEPT ![l.insight] =
                        analysis_updates(@, enrich(@, failed))]
          /\ procs' = [procs EXCEPT ![p] =
                Done("analyze", [error |-> "", existing |-> NoExisting,
                                 insight |-> l.insight])]
       \/ /\ faults > 0
          /\ faults' = faults - 1
          /\ procs' = [procs EXCEPT ![p] = [l EXCEPT !.pc = "analyze_rollback"]]
          /\ UNCHANGED insights
    /\ UNCHANGED <<repo_configs, reddit_entries, github_issues, overlaps, fnIn, fnOut>>

\* app.py:1235-1242  the status is written back to PENDING and the exception goes
\* on to the endpoint, or this write raises too
AnalyzeRollback(p) ==
    LET l == procs[p] IN
    /\ l.pc = "analyze_rollback"
    /\ \/ /\ insights' = [insights EXCEPT ![l.insight].status = I_PENDING]
          /\ UNCHANGED faults
       \/ /\ faults > 0
          /\ faults' = faults - 1
          /\ UNCHANGED insights
    /\ procs' = [procs EXCEPT ![p] =
            Done("analyze", [error |-> "exception", insight |-> l.insight])]
    /\ UNCHANGED <<repo_configs, reddit_entries, github_issues, overlaps, fnIn, fnOut>>

(***************************************************************************)
(* Community approval: app.py create_pr_for_insight, ask_community_approval*)
(* and _refresh_community_approvals                                        *)
(***************************************************************************)
\* the create-pr request goes on after its tests of the insight
NoPrReturn == [returns |-> FALSE, error |-> "", pr_number |-> 0]

\* faulty variant: the test for a recorded pull request dropped
create_pr_early_return_without_pr_test(insight) ==
    IF insight.github_issue = 0
    THEN [returns |-> TRUE, error |-> "No GitHub issue created yet", pr_number |-> 0]
    ELSE NoPrReturn

\* app.py:1589-1601  what create_pr_for_insight answers before any call to the
\* tracker: 400 for an insight without issue, the recorded pull request for an
\* insight that has one
create_pr_early_return(insight) ==
    IF insight.github_issue = 0
    THEN [returns |-> TRUE, error |-> "No GitHub issue created yet", pr_number |-> 0]
    ELSE IF insight.github_pr_number # 0
    THEN [returns |-> TRUE, error |-> "", pr_number |-> insight.github_pr_number]
    ELSE NoPrReturn

\* app.py:1626-1733  the tracker calls of a create-pr request that opens a pull
\* request
PrCalls == <<"create_branch", "upsert_file", "create_pull_request_stub">>

\* app.py:1574-1810  POST /api/insights/<id>/create-pr: a pull request is opened
\* for an insight that has an issue and entries, its number is stored on the
\* insight and the entries are marked again with the issue url; calls are the
\* tracker calls the request made
CreatePr(p) ==
    /\ CanStart(p)
    /\ Started(p)
    /\ \E i \in ExistingInsights :
        LET entries == get_reddit_entries_by_insight(i)
            early == create_pr_early_return(insights[i])
        IN
        IF early.returns
        THEN /\ procs' = [procs EXCEPT ![p] =
                    Done("create_pr", [error |-> early.error, insight |-> i,
                                       pr_number |-> early.pr_number, calls |-> <<>>])]
             /\ UNCHANGED <<insights, reddit_entries>>
        ELSE IF ~repo_configs
        THEN /\ procs' = [procs EXCEPT ![p] =
                    Done("create_pr", [error |-> "No repository configured",
                                       insight |-> i, pr_number |-> 0, calls |-> <<>>])]
             /\ UNCHANGED <<insights, reddit_entries>>
        ELSE IF entries = {}
        THEN /\ procs' = [procs EXCEPT ![p] =
                    Done("create_pr", [error |-> "No Reddit entries found",
                                       insight |-> i, pr_number |-> 0, calls |-> <<>>])]
             /\ UNCHANGED <<insights, reddit_entries>>
        ELSE /\ insights' = [insights EXCEPT ![i].github_pr_number = i]
             /\ reddit_entries' = [r \in Rows |->
                    IF r \in entries
                    THEN mark_processed(reddit_entries[r], insights[i].github_issue)
                    ELSE reddit_entries[r]]
             /\ procs' = [procs EXCEPT ![p] =
                    Done("create_pr", [error |-> "", insight |-> i, pr_number |-> i,
                                       calls |-> PrCalls])]
    /\ UNCHANGED <<repo_configs, github_issues, faults, fnIn, fnOut>>

\* app.py:1823-1910  POST /api/insights/<id>/ask-community: for an insight with
\* a pull request and an entry, not asked yet, a reply is posted and the request
\* is recorded with reply score 0
AskCommunity(p) ==
    /\ CanStart(p)
    /\ Started(p)
    /\ \E i \in ExistingInsights :
        IF insights[i].github_pr_number = 0
        THEN /\ procs' = [procs EXCEPT ![p] =
                    Done("ask_community", [error |-> "No PR created yet for this insight",
                                           insight |-> i])]
             /\ UNCHANGED insights
        ELSE IF insights[i].community.community_approval_requested
        THEN /\ procs' = [procs EXCEPT ![p] =
                    Done("ask_community", [error |-> "", insight |-> i])]
             /\ UNCHANGED insights
        ELSE IF get_reddit_entries_by_insight(i) = {}
        THEN /\ procs' = [procs EXCEPT ![p] =
                    Done("ask_community", [error |-> "No Reddit entry found",
                                           insight |-> i])]
             /\ UNCHANGED insights
        ELSE /\ insights' = [insights EXCEPT ![i].community =
                    [@ EXCEPT !.community_approval_requested = TRUE,
                              !.community_reply_score = 0]]
             /\ procs' = [procs EXCEPT ![p] =
                    Done("ask_community", [error |-> "", insight |-> i])]
    /\ UNCHANGED <<repo_configs, reddit_entries, github_issues, faults, fnIn, fnOut>>

\* models.py:204-241  the Insight model declares no field github_repo: reading
\* insight.github_repo (app.py:534) raises AttributeError
HasGithubRepo == FALSE

\* app.py:471-500  the insights asked about and not approved yet are read once
CommunityRead(p) ==
    /\ CanStart(p)
    /\ Started(p)
    /\ LET asked == {i \in ExistingInsights :
                        /\ insights[i].community.community_approval_requested
                        /\ ~insights[i].community.community_approved}
           report == [error |-> "", checked |-> 0, approved |-> 0, merged |-> 0]
       IN  procs' = [procs EXCEPT ![p] =
                IF asked = {}
                THEN Done("community", report)
                ELSE [pc |-> "community", todo |-> asked, report |-> report]]
    /\ UNCHANGED <<store, faults, fnIn, fnOut>>

\* app.py:524-551  the updates for a fetched reply score: the score, and from
\* MIN_SCORE on the approval; merged tells whether merge_pr was called and succeeded
community_updates(community, score) ==
    [community EXCEPT !.community_reply_score = score,
                      !.community_approved = @ \/ score >= MIN_SCORE]

\* app.py:502-554  one turn of the loop: the reply score is fetched (or not
\* available); from MIN_SCORE on the insight is approved and, when it has a pull
\* request, insight.github_repo is read before the merge; then the update
CommunityCheck(p) ==
    LET l == procs[p] IN
    /\ l.pc = "community"
    /\ \E i \in l.todo, fetched \in {None} \cup {Some(n) : n \in 0 .. MaxScore},
          merge_ok \in BOOLEAN :
        LET todo == l.todo \ {i}
            snapshot_pr == insights[i].github_pr_number
            approves == fetched # None /\ fetched[1] >= MIN_SCORE
            raises == approves /\ snapshot_pr # 0 /\ ~HasGithubRepo
            merges == approves /\ snapshot_pr # 0 /\ HasGithubRepo /\ merge_ok
            report == [l.report EXCEPT
                        !.checked = @ + 1,
                        !.approved = IF approves THEN @ + 1 ELSE @,
                        !.merged = IF merges THEN @ + 1 ELSE @]
        IN  \* the outcome of merge_pr is drawn only when it is called
            /\ merge_ok \/ (approves /\ snapshot_pr # 0 /\ HasGithubRepo)
            /\ IF raises
               THEN /\ procs' = [procs EXCEPT ![p] =
                            Done("community", [error |-> "exception", insight |-> i,
                                               score |-> fetched])]
                    /\ UNCHANGED insights
               ELSE /\ insights' =
                        IF fetched = None THEN insights
                        ELSE [insights EXCEPT ![i].community =
                                community_updates(@, fetched[1])]
                    /\ procs' = [procs EXCEPT ![p] =
                            IF todo = {}
                            THEN Done("community",
                                      IF fetched = None THEN l.report ELSE report)
                            ELSE [l EXCEPT !.todo = todo,
                                           !.report = IF fetched = None THEN @
                                                      ELSE report]]
    /\ UNCHANGED <<repo_configs, reddit_entries, github_issues, overlaps, faults,
                   fnIn, fnOut>>

InsightStatuses ==
    {I_PENDING, I_ANALYZING, I_READY, I_APPROVED, I_IN_PROGRESS, I_COMPLETED, I_CLOSED}

\* app.py:1305-1350  PUT /api/insights/<id>/status: the status sent is written
\* whatever the insight's current status is; for in_progress the title of the
\* issue spec is read afterwards, which raises when there is none
UpdateInsightStatus(p) ==
    /\ CanStart(p)
    /\ Started(p)
    /\ \E i \in ExistingInsights, status \in InsightStatuses :
        /\ insights' = [insights EXCEPT ![i].status = status]
        /\ procs' = [procs EXCEPT ![p] =
                Done("status",
                     [error |-> IF status = I_IN_PROGRESS /\ ~insights[i].issue_spec
                                THEN "exception" ELSE "",
                      insight |-> i])]
    /\ UNCHANGED <<repo_configs, reddit_entries, github_issues, faults, fnIn, fnOut>>

(***************************************************************************)
(* Specifications                                                          *)
(***************************************************************************)
Step(p) ==
    \/ CreateRepoConfig(p)
    \/ UpsertRead(p)
    \/ UpsertWrite(p)
    \/ RefreshRead(p)
    \/ RefreshEntry(p)
    \/ SweepRead(p)
    \/ SweepClaim(p)
    \/ SweepConfig(p)
    \/ ClusterSearch(p)
    \/ ClusterWrite(p)
    \/ ClusterEntry(p)
    \/ SweepPending(p)
    \/ AnalyzeBegin(p)
    \/ AnalyzeWrite(p)
    \/ SweepReady(p)
    \/ PublishBegin(p)
    \/ ManualCreateIssue(p)
    \/ CreateIssue(p)
    \/ PersistIssue(p)
    \/ MarkRead(p)
    \/ MarkEntry(p)
    \/ Advance(p)
    \/ Return(p)

\* the requests of the pipeline and of its manual triggers
PipelineNext == \E p \in Procs : Step(p)

\* the requests a human reviewer sends
ReviewNext == \E p \in Procs : ApproveWorkflow(p)

Next == PipelineNext \/ ReviewNext

Spec == Init /\ [][Next]_vars

\* overlapping requests of the pipeline; no review request, no call raises
OverlapSpec == OverlapInit /\ [][PipelineNext]_vars

(***************************************************************************)
(* PureSpec: the pure helpers on inputs drawn from bounded sets            *)
(***************************************************************************)
Scores == {None} \cup {Some(n) : n \in -1 .. MaxScore}

MinScores == 0 .. MaxScore

OptionalStatuses == {None} \cup {Some(st) : st \in RedditEntryStatus}

DetermineInputs ==
    {[fn |-> "determine_entry_status", score |-> sc, min_score |-> m] :
        sc \in Scores, m \in MinScores}

ResolveInputs ==
    {[fn |-> "resolve_entry_status", existing |-> ex, candidate |-> ca] :
        ex \in OptionalStatuses, ca \in RedditEntryStatus}

ShouldProcessInputs ==
    {[fn |-> "should_process_entry", entry |-> [status |-> st, github_issue_url |-> u]] :
        st \in RedditEntryStatus, u \in 0 .. MaxIssues}

PureInit ==
    /\ StoreInit
    /\ procs = [p \in Procs |-> Idle]
    /\ overlaps = 0
    /\ faults = 0
    /\ fnIn \in DetermineInputs \cup ResolveInputs \cup ShouldProcessInputs
    /\ fnOut = Unset

ApplyDetermine ==
    /\ fnIn.fn = "determine_entry_status"
    /\ fnOut = Unset
    /\ fnOut' = <<determine_entry_status(fnIn.score, fnIn.min_score)>>
    /\ UNCHANGED <<store, procs, overlaps, faults, fnIn>>

ApplyResolve ==
    /\ fnIn.fn = "resolve_entry_status"
    /\ fnOut = Unset
    /\ fnOut' = <<resolve_entry_status(fnIn.existing, fnIn.candidate)>>
    /\ UNCHANGED <<store, procs, overlaps, faults, fnIn>>

ApplyShouldProcess ==
    /\ fnIn.fn = "should_process_entry"
    /\ fnOut = Unset
    /\ fnOut' = <<should_process_entry(fnIn.entry)>>
    /\ UNCHANGED <<store, procs, overlaps, faults, fnIn>>

PureNext == ApplyDetermine \/ ApplyResolve \/ ApplyShouldProcess

PureSpec == PureInit /\ [][PureNext]_vars

\* C1: determine_entry_status(score, min_score) is PENDING when score is None, READY
\* when score >= min_score and PENDING otherwise, for every score and min_score; it
\* is total: on every input the call is enabled and yields a status.
C1_DetermineEntryStatus ==
    fnIn.fn = "determine_entry_status" =>
        /\ fnOut = Unset => ENABLED ApplyDetermine
        /\ fnOut # Unset =>
            /\ fnOut[1] \in RedditEntryStatus
            /\ fnIn.score = None => fnOut[1] = PENDING
            /\ fnIn.score # None =>
                IF fnIn.score[1] < fnIn.min_score THEN fnOut[1] = PENDING ELSE fnOut[1] = READY

\* the boundary: a score equal to the threshold gave READY
C1_Witness ==
    /\ fnIn.fn = "determine_entry_status"
    /\ fnIn.score = Some(fnIn.min_score)
    /\ fnOut = <<READY>>

ProtectedStatuses == {PROCESSED, SKIPPED, PROCESSING, READY}

\* C2: _resolve_entry_status(existing, candidate) is existing when existing is one
\* of PROCESSED, SKIPPED, PROCESSING, READY and candidate in every other case (None,
\* PENDING, FAILED); so a protected existing status never yields PENDING.
C2_ResolveEntryStatus ==
    (fnIn.fn = "resolve_entry_status" /\ fnOut # Unset) =>
        IF fnIn.existing # None /\ fnIn.existing[1] \in ProtectedStatuses
        THEN fnOut[1] = fnIn.existing[1] /\ fnOut[1] # PENDING
        ELSE fnOut[1] = fnIn.candidate

\* a READY entry met a PENDING candidate and stayed READY
C2_Witness ==
    /\ fnIn.fn = "resolve_entry_status"
    /\ fnIn.existing = Some(READY)
    /\ fnIn.candidate = PENDING
    /\ fnOut = <<READY>>

\* C3: should_process_entry(entry) is true iff entry.status is READY and the entry
\* has no issue url; false for every entry with an issue url (READY included) and
\* for every PROCESSED or SKIPPED entry.
C3_ShouldProcessEntry ==
    (fnIn.fn = "should_process_entry" /\ fnOut # Unset) =>
        /\ fnOut[1] = (fnIn.entry.status = READY /\ fnIn.entry.github_issue_url = 0)
        /\ fnIn.entry.github_issue_url # 0 => fnOut[1] = FALSE
        /\ fnIn.entry.status \in {PROCESSED, SKIPPED} => fnOut[1] = FALSE

\* a READY entry that carries an issue url was refused
C3_Witness ==
    /\ fnIn.fn = "should_process_entry"
    /\ fnIn.entry.status = READY
    /\ fnIn.entry.github_issue_url # 0
    /\ fnOut = <<FALSE>>

(***************************************************************************)
(* ClaimSpec: two overlapping claim loops (app.py:580-588) on a store      *)
(* holding rows in the states the pipeline leaves them in                  *)
(***************************************************************************)
ClaimRowKinds ==
    {"absent", "pending", "low", "ready", "processing", "processed", "relinked"}

\* the row of reddit id n in one of the states the handlers put a row in: never
\* ingested, without a score, below the threshold, READY, claimed by a sweep that
\* has not clustered it yet, published, published and written READY again by a stale ingest
ClaimRow(n, kind) ==
    CASE kind = "absent" -> NoRow
      [] kind = "pending" -> [NoRow EXCEPT !.reddit_id = n]
      [] kind = "low" ->
            [NoRow EXCEPT !.reddit_id = n, !.score = Some(MIN_SCORE - 1),
                          !.checked = TRUE]
      [] kind = "ready" ->
            [NoRow EXCEPT !.reddit_id = n, !.status = READY,
                          !.score = Some(MIN_SCORE), !.checked = TRUE]
      [] kind = "processing" ->
            [NoRow EXCEPT !.reddit_id = n, !.status = PROCESSING,
                          !.score = Some(MIN_SCORE), !.checked = TRUE]
      [] kind = "processed" ->
            [NoRow EXCEPT !.reddit_id = n, !.status = PROCESSED,
                          !.score = Some(MIN_SCORE), !.checked = TRUE,
                          !.github_issue_url = 1, !.insight_id = 1]
      [] kind = "relinked" ->
            [NoRow EXCEPT !.reddit_id = n, !.status = READY,
                          !.score = Some(MIN_SCORE), !.checked = TRUE,
                          !.github_issue_url = 1, !.insight_id = 1]

\* rows are inserted in the first free slot: the absent ones come last
ClaimStores ==
    {k \in [Rows -> ClaimRowKinds] :
        \A r \in Rows : k[r] = "absent" => \A q \in Rows : q > r => k[q] = "absent"}

\* a store of such rows; the linked ones belong to insight 1, published as issue 1
ClaimStoreInit ==
    /\ repo_configs = TRUE
    /\ \E k \in ClaimStores :
        LET linked == {r \in Rows : k[r] \in {"processed", "relinked"}} IN
        /\ reddit_entries = [r \in Rows |-> ClaimRow(r, k[r])]
        /\ insights = [i \in InsightIds |->
            IF i = 1 /\ linked # {}
            THEN [theme |-> "General Feedback", status |-> I_IN_PROGRESS,
                  github_issue |-> 1, issue_spec |-> TRUE,
                  payloads |-> Some(
                      [summary |-> analyze_insight(NoInsight, TRUE),
                       issue_spec |-> generate_issue_spec(NoInsight, NoInsight, TRUE),
                       patch_plan |-> generate_patch_plan(NoInsight, TRUE)]),
                  priority |-> Some(generate_issue_spec(NoInsight, NoInsight, TRUE).priority),
                  entry_count |-> Cardinality(linked), github_pr_number |-> 0,
                  community |-> NoCommunity]
            ELSE NoInsight]
        /\ github_issues = IF linked # {} THEN <<1>> ELSE <<>>

ClaimInit ==
    /\ ClaimStoreInit
    /\ procs = [p \in Procs |-> Idle]
    /\ overlaps = MaxOverlaps
    /\ faults = 0
    /\ fnIn = NoCall
    /\ fnOut = Unset

ClaimNext == \E p \in Procs : SweepRead(p) \/ SweepClaim(p)

ClaimSpec == ClaimInit /\ [][ClaimNext]_vars

InClaimLoop(p) == procs[p].pc \in {"sweep_claim", "sweep_config"}

\* the requests whose claim attempt on row r has returned
Attempted(r) ==
    {p \in Procs : InClaimLoop(p) /\ r \in procs[p].entries
                   /\ (procs[p].pc = "sweep_claim" => r \notin procs[p].todo)}

\* the requests whose claim attempt on row r returned the row
Winners(r) == {p \in Procs : InClaimLoop(p) /\ \E g \in procs[p].claimed : g[1] = r}

\* a row both requests read as READY without an issue url and both tried to claim:
\* exactly one attempt returned it and it is PROCESSING
ClaimedOnce ==
    \A r \in Rows :
        /\ Cardinality(Winners(r)) <= 1
        /\ Attempted(r) = Procs =>
            /\ Cardinality(Winners(r)) = 1
            /\ reddit_entries[r].status = PROCESSING

\* a claim attempt that returns nothing changes nothing in the store; one that
\* returns the row changes that row's status only, from READY to PROCESSING
ClaimStep ==
    \A p \in Procs : \A r \in Rows :
        (procs[p].pc = "sweep_claim" /\ r \in procs[p].todo
            /\ procs'[p].pc \in {"sweep_claim", "sweep_config"}
            /\ (procs'[p].pc = "sweep_claim" => r \notin procs'[p].todo)) =>
        IF \E g \in procs'[p].claimed : g[1] = r
        THEN /\ reddit_entries[r].status = READY
             /\ reddit_entries[r].github_issue_url = 0
             /\ reddit_entries' =
                    [reddit_entries EXCEPT ![r].status = PROCESSING]
             /\ UNCHANGED <<repo_configs, insights, github_issues>>
        ELSE UNCHANGED store

\* C4: of two concurrent claim attempts on one entry that is READY and has no issue
\* url, exactly one returns the row and moves it to PROCESSING; the other returns
\* nothing and changes nothing.
C4_ClaimExclusive == []ClaimedOnce /\ [][ClaimStep]_vars

\* both requests read row 1 as READY, both attempts have returned, the second
\* slot lost
C4_Witness ==
    /\ Attempted(1) = Procs
    /\ Winners(1) = {1}
    /\ reddit_entries[1].status = PROCESSING

(***************************************************************************)
(* Issue creation                                                          *)
(***************************************************************************)
\* the external issues created for insight i
IssuesOf(i) == {n \in DOMAIN github_issues : github_issues[n] = i}

\* C5: under two overlapping sweeps, or a sweep overlapping a manual create-issue
\* call, at most one external issue is ever created for any insight.
C5_AtMostOneIssue == \A i \in InsightIds : Cardinality(IssuesOf(i)) <= 1

\* the insight a create-issue request was made for
ManualInsight(l) == IF l.pc = "done" THEN l.ret.insight ELSE l.insight

\* p takes the first step of a create-issue request
ManualCall(p) ==
    /\ IsIdle(p)
    /\ "op" \in DOMAIN procs'[p]
    /\ procs'[p].op = "manual"

\* C6: a second call of issue creation for an insight, read again from the store
\* after a first call persisted its issue, makes no external create_issue call,
\* changes nothing in the store and returns the original linkage as existing.
C6_NoDoubleIssue ==
    [][\A p \in Procs :
        (ManualCall(p) /\ insights[ManualInsight(procs'[p])].github_issue # 0) =>
            LET i == ManualInsight(procs'[p]) IN
            /\ github_issues' = github_issues
            /\ UNCHANGED <<repo_configs, reddit_entries, insights>>
            /\ procs'[p].pc = "done"
            /\ procs'[p].ret.error = ""
            /\ procs'[p].ret.issue = 0
            /\ procs'[p].ret.existing # NoExisting
            /\ procs'[p].ret.existing.issue_url = insights[i].github_issue
            /\ github_issues[insights[i].github_issue] = i]_vars

\* a create-issue request on an insight published by a sweep returned the link
\* stored on the insight
C6_Witness ==
    \E p \in Procs :
        /\ procs[p].pc = "done"
        /\ procs[p].op = "manual"
        /\ procs[p].ret.error = ""
        /\ procs[p].ret.existing # NoExisting
        /\ procs[p].ret.existing.source = "insight"
        /\ insights[procs[p].ret.insight].status = I_IN_PROGRESS
        /\ Len(github_issues) = 1

\* C7: over any sequence of sweeps in which a step after the external create_issue
\* call may fail, an external issue is created for an insight only while none
\* exists for it: the issues created for one insight never exceed one.
C7_ExactlyOnceAcrossFailures ==
    [][\A p \in Procs :
        (procs[p].pc = "create_issue" /\ procs'[p].pc = "persist_issue") =>
            IssuesOf(procs[p].insight) = {}]_vars

\* C8: once an entry is READY, PROCESSING, PROCESSED or SKIPPED no step writes its
\* status back to PENDING, and no step moves a PROCESSING or PROCESSED entry back
\* to READY.
C8_NonDowngrade ==
    [][\A r \in Rows :
        /\ reddit_entries[r].status \in {READY, PROCESSING, PROCESSED, SKIPPED} =>
                reddit_entries'[r].status # PENDING
        /\ reddit_entries[r].status \in {PROCESSING, PROCESSED} =>
                reddit_entries'[r].status # READY]_vars

\* C9: every step that changes an entry's status to PROCESSING finds the entry
\* READY with a null issue url (it is the conditional claim).
C9_ProcessingOnlyByClaim ==
    [][\A r \in Rows :
        (reddit_entries[r].status # PROCESSING
            /\ reddit_entries'[r].status = PROCESSING) =>
        /\ reddit_entries[r].status = READY
        /\ reddit_entries[r].github_issue_url = 0]_vars

\* the rows p's claim attempts have returned
ClaimedBy(l) ==
    IF l.pc \in {"sweep_claim", "sweep_config"} THEN {g[1] : g \in l.claimed} ELSE {}

\* no claim succeeds on an entry that has an issue url
NeverClaimedAgain ==
    \A p \in Procs : \A r \in ClaimedBy(procs'[p]) \ ClaimedBy(procs[p]) :
        reddit_entries[r].github_issue_url = 0

\* no external issue is created from entries one of which has an issue url
NeverPublishedAgain ==
    \A p \in Procs :
        (procs[p].pc = "create_issue" /\ procs'[p].pc = "persist_issue") =>
            \A r \in procs[p].entries : reddit_entries[r].github_issue_url = 0

\* C10: an entry that has an issue url is never claimed again and never takes
\* part in another external issue creation.
C10_LinkedEntryIsFinal == [][NeverClaimedAgain /\ NeverPublishedAgain]_vars

(***************************************************************************)
(* ClaimCallSpec: db.claim_reddit_entry called on any row of a store       *)
(* holding rows in the states the handlers put them in                     *)
(***************************************************************************)
ClaimCallInputs == {[fn |-> "claim_reddit_entry", entry_id |-> r] : r \in Rows}

ClaimCallInit ==
    /\ ClaimStoreInit
    /\ procs = [p \in Procs |-> Idle]
    /\ overlaps = 0
    /\ faults = 0
    /\ fnIn \in ClaimCallInputs
    /\ fnOut = Unset

\* db.py:109-119  claim_reddit_entry(entry_id): one conditional UPDATE; the updated
\* row is returned, or None when no row matched
ApplyClaim ==
    /\ fnIn.fn = "claim_reddit_entry"
    /\ fnOut = Unset
    /\ LET r == fnIn.entry_id
           matched == reddit_entries[r].reddit_id # 0 /\ claim_condition(reddit_entries[r])
       IN  /\ reddit_entries' =
                IF matched THEN [reddit_entries EXCEPT ![r].status = PROCESSING]
                ELSE reddit_entries
           /\ fnOut' = <<IF matched THEN Some(reddit_entries'[r]) ELSE None>>
    /\ UNCHANGED <<repo_configs, insights, github_issues, procs, overlaps, faults, fnIn>>

ClaimCallNext == ApplyClaim

ClaimCallSpec == ClaimCallInit /\ [][ClaimCallNext]_vars

\* C11: a claim attempt on an entry that is not eligible (status other than READY,
\* or issue url set) returns no row and leaves every field of every entry as it was.
C11_IneligibleClaimNoOp ==
    [][(fnIn.fn = "claim_reddit_entry" /\ fnOut = Unset /\ fnOut' # Unset
            /\ (\/ reddit_entries[fnIn.entry_id].status # READY
                \/ reddit_entries[fnIn.entry_id].github_issue_url # 0)) =>
        /\ fnOut' = <<None>>
        /\ UNCHANGED store]_vars

\* a claim on a PROCESSED entry with an issue url returned no row
C11_Witness ==
    /\ fnIn.fn = "claim_reddit_entry"
    /\ fnOut = <<None>>
    /\ reddit_entries[fnIn.entry_id].status = PROCESSED
    /\ reddit_entries[fnIn.entry_id].github_issue_url # 0

(***************************************************************************)
(* Existing links                                                          *)
(***************************************************************************)
\* the issue urls on the entries of insight i
EntryLinks(i) ==
    {reddit_entries[r].github_issue_url : r \in get_reddit_entries_by_insight(i)} \ {0}

\* the READY insight a sweep handles in this step, as the sweep read it
Picked(p) ==
    IF procs'[p].pc \in {"publish", "create_issue"}
    THEN procs[p].ready \ procs'[p].ready
    ELSE procs[p].ready

\* a create-issue request: the link of the insight is reported with source
\* 'insight'; without one, a link of an entry is reported with source 'entry'
ManualExisting(p) ==
    ManualCall(p) =>
        LET i == ManualInsight(procs'[p])
            l == procs'[p]
        IN  /\ insights[i].github_issue # 0 =>
                /\ l.pc = "done"
                /\ l.ret.existing # NoExisting
                /\ l.ret.existing.source = "insight"
                /\ l.ret.existing.issue_url = insights[i].github_issue
                /\ l.ret.issue = 0
                /\ UNCHANGED store
            /\ (insights[i].github_issue = 0 /\ EntryLinks(i) # {}) =>
                /\ l.pc = "done"
                /\ l.ret.existing # NoExisting
                /\ l.ret.existing.source = "entry"
                /\ l.ret.existing.issue_number = 0
                /\ l.ret.existing.issue_url \in EntryLinks(i)
                /\ l.ret.issue = 0
                /\ UNCHANGED store

\* a sweep: an insight that it read with a link, or one of whose entries has a
\* link, is skipped without a tracker call or a store write
SweepExisting(p) ==
    (procs[p].pc = "publish" /\ procs'[p].pc # "publish") =>
        \A insight \in Picked(p) :
            (insight.github_issue # 0 \/ EntryLinks(insight.id) # {}) =>
                /\ procs'[p].pc # "create_issue"
                /\ UNCHANGED store

\* C12: when an insight has no issue link of its own but one of its entries has an
\* issue url, issue creation makes no external call, changes nothing and reports
\* the entry's link with source 'entry'; when the insight has a link, that link is
\* reported with source 'insight'.
C12_ExistingSource == [][\A p \in Procs : ManualExisting(p) /\ SweepExisting(p)]_vars

\* a create-issue request found the link on an entry only
C12_Witness ==
    \E p \in Procs :
        /\ procs[p].pc = "done"
        /\ procs[p].op = "manual"
        /\ procs[p].ret.error = ""
        /\ procs[p].ret.existing # NoExisting
        /\ procs[p].ret.existing.source = "entry"
        /\ insights[procs[p].ret.insight].github_issue = 0

(***************************************************************************)
(* IngestSpec: ingests and score refreshes, one request at a time, on a    *)
(* store holding rows in the states the handlers put them in               *)
(***************************************************************************)
IngestInit ==
    /\ ClaimStoreInit
    /\ procs = [p \in Procs |-> Idle]
    /\ overlaps = 0
    /\ faults = 0
    /\ fnIn = NoCall
    /\ fnOut = Unset

IngestNext ==
    \E p \in Procs :
        \/ UpsertRead(p)
        \/ UpsertWrite(p)
        \/ RefreshRead(p)
        \/ RefreshEntry(p)
        \/ Return(p)

IngestSpec == IngestInit /\ [][IngestNext]_vars

\* p writes the row of its item: the second half of _upsert_reddit_entry
Upserts(p) == procs[p].pc = "upsert_write" /\ procs'[p].pc = "done"

\* the rows stored for an external id
RowsOf(reddit_id) == {r \in Rows : reddit_entries[r].reddit_id = reddit_id}

\* C13: an upsert of an existing entry with an item whose score is None leaves the
\* stored score and last_score_check_at as they were; an upsert with a score
\* stores that score and sets last_score_check_at.
C13_ScoreNonRegression ==
    [][\A p \in Procs :
        Upserts(p) =>
            \A r \in RowsOf(procs[p].reddit_id) :
                IF procs[p].score = None
                THEN /\ reddit_entries'[r].score = reddit_entries[r].score
                     /\ reddit_entries'[r].checked = reddit_entries[r].checked
                ELSE /\ reddit_entries'[r].score = procs[p].score
                     /\ reddit_entries'[r].checked]_vars

\* an item without a score was upserted over an entry that keeps its score
C13_Witness ==
    \E p \in Procs :
        /\ procs[p].pc = "done"
        /\ procs[p].op = "upsert"
        /\ ~procs[p].ret.created
        /\ reddit_entries[procs[p].ret.entry].score = Some(MIN_SCORE)
        /\ reddit_entries[procs[p].ret.entry].status = PROCESSED

\* the upsert of an external id that has no row inserts one row
UpsertInserts(p) ==
    LET l == procs[p] IN
    (Upserts(p) /\ RowsOf(l.reddit_id) = {}) =>
        /\ procs'[p].ret.created
        /\ \E r \in FreeRows :
            /\ procs'[p].ret.entry = r
            /\ reddit_entries'[r].reddit_id = l.reddit_id
            /\ reddit_entries'[r].status = determine_entry_status(l.score, MIN_SCORE)
            /\ reddit_entries'[r].checked = (l.score # None)
            /\ reddit_entries'[r].score = l.score
            /\ \A q \in Rows \ {r} : reddit_entries'[q] = reddit_entries[q]

\* the upsert of an external id that has a row inserts none
UpsertUpdates(p) ==
    LET l == procs[p] IN
    Upserts(p) =>
        \A r \in RowsOf(l.reddit_id) :
            /\ ~procs'[p].ret.created
            /\ procs'[p].ret.entry = r
            /\ reddit_entries'[r].status =
                    resolve_entry_status(Some(reddit_entries[r].status),
                                         determine_entry_status(l.score, MIN_SCORE))
            /\ reddit_entries'[r].reddit_id = l.reddit_id
            /\ \A q \in Rows \ {r} : reddit_entries'[q] = reddit_entries[q]

\* no two rows hold the same external id
OneRowPerRedditId ==
    \A r, q \in ExistingRows : reddit_entries[r].reddit_id = reddit_entries[q].reddit_id => r = q

\* C14: an upsert of an external id with no stored entry inserts exactly one row
\* with status determine_entry_status(score, MIN_SCORE), last_score_check_at set
\* iff the score is non-null, and returns created = true; for a stored external
\* id it inserts no row, sets the status to _resolve_entry_status(existing status,
\* candidate) and returns created = false; under sequential upserts at most one
\* entry per external id exists.
C14_UpsertCreatedFlag ==
    /\ []OneRowPerRedditId
    /\ [][\A p \in Procs : UpsertInserts(p) /\ UpsertUpdates(p)]_vars

\* a second item was inserted next to a stored one, without a score
C14_Witness ==
    \E p \in Procs :
        /\ procs[p].pc = "done"
        /\ procs[p].op = "upsert"
        /\ procs[p].ret.created
        /\ procs[p].ret.entry = 2
        /\ reddit_entries[2].status = PENDING
        /\ ~reddit_entries[2].checked

\* the 'ready' counter of a refresh, while it runs and when it has returned
ReadyCounter(l) == IF l.pc = "done" THEN l.ret.ready ELSE l.ready

\* the rows this step moves to READY
MovedToReady ==
    {r \in Rows : reddit_entries[r].status # READY /\ reddit_entries'[r].status = READY}

\* C15: an item ingested with score None is stored as PENDING; a refresh in which
\* a fetcher returns a score >= MIN_SCORE sets the entry to READY, and the 'ready'
\* counter grows by exactly the number of entries the call moves to READY.
C15_RefreshFlipsReady ==
    [][\A p \in Procs :
        /\ (Upserts(p) /\ RowsOf(procs[p].reddit_id) = {} /\ procs[p].score = None) =>
                \E r \in FreeRows :
                    /\ reddit_entries'[r].reddit_id = procs[p].reddit_id
                    /\ reddit_entries'[r].status = PENDING
        /\ (procs[p].pc = "refresh_entry"
                /\ procs'[p].pc \in {"refresh_entry", "done"}) =>
            /\ ReadyCounter(procs'[p]) - procs[p].ready = Cardinality(MovedToReady)
            /\ \A r \in Rows :
                (reddit_entries'[r].score # reddit_entries[r].score
                    /\ reddit_entries'[r].score # None
                    /\ reddit_entries'[r].score[1] >= MIN_SCORE) =>
                        r \in MovedToReady]_vars

\* a refresh returned ready = 1 for an entry that was PENDING without a score
C15_Witness ==
    \E p \in Procs :
        /\ procs[p].pc = "done"
        /\ procs[p].op = "refresh"
        /\ procs[p].ret.ready = 1
        /\ procs[p].ret.pending_checked = 1
        /\ \E r \in Rows :
            /\ reddit_entries[r].status = READY
            /\ reddit_entries[r].score = Some(MIN_SCORE)
            /\ reddit_entries[r].github_issue_url = 0

(***************************************************************************)
(* Enrichment                                                              *)
(***************************************************************************)
\* p ends the analysis of an insight
Analyzed(p) == procs[p].pc = "analyze_write" /\ procs'[p].pc \in {"analyze", "sweep_ready"}

\* the payloads the analysis of insight i wrote
Payloads(i) == insights'[i].payloads[1]

\* the payloads that hold the default value
Defaults(i) ==
    {st \in EnrichmentSteps :
        \/ st = "summary" /\ Payloads(i).summary.theme = insights[i].theme
                          /\ Payloads(i).summary.user_impact = "Unknown"
        \/ st = "issue_spec"
            /\ Payloads(i).issue_spec.title = Payloads(i).summary.theme
            /\ Payloads(i).issue_spec.acceptance_criteria = <<"Issue is resolved">>
        \/ st = "patch_plan" /\ Payloads(i).patch_plan.summary = "Implement fix for issue"}

\* C16: when enrichment steps fail, each failed step yields its default value (for
\* the issue spec: title = the summary's theme, acceptance_criteria = ["Issue is
\* resolved"]) instead of raising, and the insight ends the analysis with all
\* three payloads populated and status READY.
C16_EnrichmentFallback ==
    [][\A p \in Procs :
        Analyzed(p) =>
            LET i == procs[p].insight IN
            /\ insights'[i].status = I_READY
            /\ insights'[i].issue_spec
            /\ insights'[i].payloads # None
            /\ Payloads(i).summary.theme # ""
            /\ Payloads(i).issue_spec.title # ""
            /\ Payloads(i).issue_spec.acceptance_criteria # <<>>
            /\ Payloads(i).patch_plan.summary # ""
            /\ Cardinality(Defaults(i)) = faults - faults'
            /\ procs'[p].pc \in {"analyze", "sweep_ready"}]_vars

\* the issue spec generation alone failed: the insight is READY with the default
\* issue spec between a generated summary and a generated patch plan
C16_Witness ==
    \E i \in InsightIds :
        /\ insights[i].status = I_READY
        /\ insights[i].payloads # None
        /\ insights[i].payloads[1].summary.theme = Generated
        /\ insights[i].payloads[1].issue_spec.title = Generated
        /\ insights[i].payloads[1].issue_spec.acceptance_criteria = <<"Issue is resolved">>
        /\ insights[i].payloads[1].patch_plan.summary = Generated

(***************************************************************************)
(* Approval and failures in a sweep                                        *)
(***************************************************************************)
\* p's call of the tracker's create_issue returns an issue
CreatesIssue(p) == procs[p].pc = "create_issue" /\ procs'[p].pc = "persist_issue"

\* C17: an external issue is created for an insight only when a human has approved
\* it (its status is APPROVED); no sweep creates an issue for an insight that was
\* never approved.
C17_ApprovalGate ==
    [][\A p \in Procs :
        CreatesIssue(p) => insights[procs[p].insight].status = I_APPROVED]_vars

\* a call of p's sweep raises while it publishes an insight
PublishFails(p) ==
    /\ procs[p].pc \in {"create_issue", "persist_issue", "mark_entry", "advance"}
    /\ procs[p].op = "sweep"
    /\ faults' < faults

\* C18: when issue creation fails for one insight during a sweep, only that
\* insight's processing is aborted: the sweep goes on with the remaining READY
\* insights of the same call.
C18_FailureIsolation ==
    [][\A p \in Procs :
        (PublishFails(p) /\ procs[p].ready # {}) =>
            /\ procs'[p].pc = "publish"
            /\ procs'[p].ready = procs[p].ready]_vars

(***************************************************************************)
(* Insight generation on request: app.py generate_insights, on the store   *)
(* before the repository is configured and on drawn stores after it        *)
(***************************************************************************)
NothingToProcess ==
    Done("generate", [error |-> "", message |-> "No unprocessed entries to process"])

\* app.py:1111-1113  the READY rows without an issue are read once
GenerateRead(p) ==
    /\ CanStart(p)
    /\ Started(p)
    /\ LET entries == get_ready_reddit_entries IN
        procs' = [procs EXCEPT ![p] =
            IF entries = {}
            THEN NothingToProcess
            ELSE [pc |-> "generate_claim", todo |-> entries, claimed |-> {}]]
    /\ UNCHANGED <<store, faults, fnIn, fnOut>>

\* app.py:1114-1128  one turn of the claim loop; after the last turn the call
\* returns when it has claimed nothing
GenerateClaim(p) ==
    LET l == procs[p] IN
    /\ l.pc = "generate_claim"
    /\ \E r \in l.todo :
        LET snapshot == [status |-> READY, github_issue_url |-> 0]
            won == should_process_entry(snapshot) /\ claim_condition(reddit_entries[r])
            claimed == IF won THEN l.claimed \cup {<<r, reddit_entries[r].theme>>}
                       ELSE l.claimed
            todo == l.todo \ {r}
        IN  /\ reddit_entries' =
                IF won THEN [reddit_entries EXCEPT ![r].status = PROCESSING]
                ELSE reddit_entries
            /\ procs' = [procs EXCEPT ![p] =
                IF todo # {}
                THEN [l EXCEPT !.todo = todo, !.claimed = claimed]
                ELSE IF claimed = {}
                THEN NothingToProcess
                ELSE [pc |-> "generate_config", claimed |-> claimed]]
    /\ UNCHANGED <<repo_configs, insights, github_issues, overlaps, faults, fnIn, fnOut>>

\* app.py:1130-1141  the repository configuration is looked up after the claims
GenerateConfig(p) ==
    LET l == procs[p] IN
    /\ l.pc = "generate_config"
    /\ procs' = [procs EXCEPT ![p] =
        IF ~repo_configs
        THEN Done("generate", [error |-> "No repository configured"])
        ELSE [pc |-> "cluster_search", op |-> "generate", groups |-> l.claimed]]
    /\ UNCHANGED <<store, overlaps, faults, fnIn, fnOut>>

GenerateInit ==
    /\ StoreInit \/ ClaimStoreInit
    /\ procs = [p \in Procs |-> Idle]
    /\ overlaps = 0
    /\ faults = 0
    /\ fnIn = NoCall
    /\ fnOut = Unset

GenerateNext ==
    \E p \in Procs :
        \/ CreateRepoConfig(p)
        \/ GenerateRead(p)
        \/ GenerateClaim(p)
        \/ GenerateConfig(p)
        \/ ClusterSearch(p)
        \/ ClusterWrite(p)
        \/ ClusterEntry(p)
        \/ Return(p)

GenerateSpec == GenerateInit /\ [][GenerateNext]_vars

\* p's sweep or insight-generation call returns
Reports(p) == procs[p].pc = "done" /\ procs[p].op \in {"sweep", "generate"}

\* C19: a sweep or an insight-generation call made while no repository
\* configuration exists reports that failure to its caller, and no step of it
\* changes an entry.
C19_NoConfigNoMutation ==
    /\ [](\A p \in Procs :
            (Reports(p) /\ ~repo_configs) =>
                procs[p].ret.error = "No repository configured")
    /\ [][\A p \in Procs :
            (~repo_configs /\ procs[p].pc \in {"sweep_claim", "generate_claim"}) =>
                reddit_entries' = reddit_entries]_vars

(***************************************************************************)
(* PublishSpec: sweeps and create-issue requests, one request at a time,   *)
(* on stores where insights were generated on request and their status set *)
(* by hand, so that a READY insight may have no issue spec                 *)
(***************************************************************************)
PublishNext ==
    \E p \in Procs :
        \/ GenerateRead(p)
        \/ GenerateClaim(p)
        \/ GenerateConfig(p)
        \/ UpdateInsightStatus(p)
        \/ SweepRead(p)
        \/ SweepClaim(p)
        \/ SweepConfig(p)
        \/ ClusterSearch(p)
        \/ ClusterWrite(p)
        \/ ClusterEntry(p)
        \/ SweepPending(p)
        \/ AnalyzeBegin(p)
        \/ AnalyzeWrite(p)
        \/ SweepReady(p)
        \/ PublishBegin(p)
        \/ ManualCreateIssue(p)
        \/ CreateIssue(p)
        \/ PersistIssue(p)
        \/ MarkRead(p)
        \/ MarkEntry(p)
        \/ Advance(p)
        \/ Return(p)

PublishSpec == GenerateInit /\ [][PublishNext]_vars

\* the insight has no link, none of its entries has one, and it has no issue spec
Specless(insight) ==
    /\ insight.github_issue = 0
    /\ ~insight.issue_spec
    /\ get_reddit_entries_by_insight(insight.id) # {}
    /\ EntryLinks(insight.id) = {}

\* C20: issue creation for an insight that has no issue link and no issue spec is
\* a no-op: no tracker call, no change to the insight or to its entries, and no
\* issue in the result; the sweep goes on with its next insight.
C20_NoSpecNoOp ==
    [][\A p \in Procs :
        procs[p].pc = "publish" =>
            \A insight \in Picked(p) :
                Specless(insight) =>
                    /\ early_return(insight, get_reddit_entries_by_insight(insight.id)) =
                            [returns |-> TRUE, issue |-> 0, existing |-> NoExisting]
                    /\ procs'[p] = NextPublish(procs[p].ready \ {insight})
                    /\ UNCHANGED store]_vars

\* a sweep has returned and left alone a READY insight that has entries, no link
\* and no issue spec
C20_Witness ==
    \E p \in Procs, i \in ExistingInsights :
        /\ procs[p].pc = "done"
        /\ procs[p].op = "sweep"
        /\ procs[p].ret.error = ""
        /\ insights[i].status = I_READY
        /\ Specless(InsightSnapshot(i))
        /\ \A n \in 1 .. Len(github_issues) : github_issues[n] # i

(***************************************************************************)
(* Failure and success of one issue creation                               *)
(***************************************************************************)
\* the tracker call of p raises
CreateIssueFails(p) == procs[p].pc = "create_issue" /\ faults' < faults

\* C21: when the external create_issue call fails, the exception reaches the
\* caller, nothing is persisted (no link on the insight or on an entry, no status
\* changed), and the insight passes the checks of issue creation again: a sweep
\* that failed on it finds it READY the next time.
C21_CreateFailureRetried ==
    [][\A p \in Procs :
        CreateIssueFails(p) =>
            LET i == procs[p].insight
                entries == get_reddit_entries_by_insight(i)
            IN  /\ procs'[p] = Done(procs[p].op, [error |-> "exception"])
                /\ UNCHANGED store
                /\ insights'[i].github_issue = 0
                /\ \A r \in entries : reddit_entries'[r].github_issue_url = 0
                /\ entries # {}
                /\ early_return(InsightSnapshot(i), entries) = NoReturn
                /\ procs[p].op = "sweep" => insights'[i].status = I_READY]_vars

\* after a create_issue call failed (the only call that raised, no issue exists),
\* a later sweep is at its create_issue call for the same, only insight
C21_Witness ==
    \E p \in Procs :
        /\ procs[p].pc = "create_issue"
        /\ procs[p].op = "sweep"
        /\ github_issues = <<>>
        /\ faults = MaxFaults - 1
        /\ ExistingInsights = {procs[p].insight}
        /\ insights[procs[p].insight].payloads # None
        /\ insights[procs[p].insight].payloads[1].summary.theme = Generated
        /\ insights[procs[p].insight].payloads[1].issue_spec.acceptance_criteria =
                <<Generated>>
        /\ insights[procs[p].insight].payloads[1].patch_plan.summary = Generated

\* _create_issue_for_insight returns the issue it created: the last store write
\* of p's call succeeds
ReturnsCreated(p) == procs[p].pc = "advance" /\ procs'[p].pc # "advance" /\ faults' = faults

\* C22: when _create_issue_for_insight returns a newly created issue, every entry
\* attached to the insight is PROCESSED with the url of that issue, the insight
\* carries the issue and its status is IN_PROGRESS.
C22_CreatedIssuePostcondition ==
    [][\A p \in Procs :
        ReturnsCreated(p) =>
            LET i == procs[p].insight
                issue == procs[p].issue
            IN  /\ insights'[i].github_issue = issue
                /\ insights'[i].status = I_IN_PROGRESS
                /\ \A r \in ExistingRows :
                    reddit_entries'[r].insight_id = i =>
                        /\ reddit_entries'[r].status = PROCESSED
                        /\ reddit_entries'[r].github_issue_url = issue]_vars

\* a create-issue request returned the issue it created for an insight of two
\* entries
C22_Witness ==
    \E p \in Procs :
        /\ procs[p].pc = "done"
        /\ procs[p].op = "manual"
        /\ procs[p].ret.error = ""
        /\ procs[p].ret.issue # 0
        /\ insights[procs[p].ret.insight].status = I_IN_PROGRESS
        /\ insights[procs[p].ret.insight].github_issue = procs[p].ret.issue
        /\ Cardinality(get_reddit_entries_by_insight(procs[p].ret.insight)) = 2
        /\ \A r \in get_reddit_entries_by_insight(procs[p].ret.insight) :
            /\ reddit_entries[r].status = PROCESSED
            /\ reddit_entries[r].github_issue_url = procs[p].ret.issue

(***************************************************************************)
(* Insight statuses                                                        *)
(***************************************************************************)
\* C23: an insight has status IN_PROGRESS only if an external issue was created
\* for it and its link is stored on the insight.
C23_InProgressHasIssue ==
    \A i \in ExistingInsights :
        insights[i].status = I_IN_PROGRESS =>
            /\ insights[i].github_issue # 0
            /\ IssuesOf(i) # {}

(***************************************************************************)
(* AnalysisSpec: sweeps, analyses on request and review requests, one      *)
(* request at a time, after insights were generated on request; store,     *)
(* tracker and model calls may raise                                       *)
(***************************************************************************)
AnalysisInit ==
    /\ StoreInit \/ ClaimStoreInit
    /\ procs = [p \in Procs |-> Idle]
    /\ overlaps = 0
    /\ faults = MaxFaults
    /\ fnIn = NoCall
    /\ fnOut = Unset

AnalysisNext ==
    \E p \in Procs :
        \/ GenerateRead(p)
        \/ GenerateClaim(p)
        \/ GenerateConfig(p)
        \/ AnalyzeRequest(p)
        \/ AnalyzeRequestWrite(p)
        \/ AnalyzeRollback(p)
        \/ ApproveWorkflow(p)
        \/ SweepRead(p)
        \/ SweepClaim(p)
        \/ SweepConfig(p)
        \/ ClusterSearch(p)
        \/ ClusterWrite(p)
        \/ ClusterEntry(p)
        \/ SweepPending(p)
        \/ AnalyzeBegin(p)
        \/ AnalyzeWrite(p)
        \/ SweepReady(p)
        \/ PublishBegin(p)
        \/ CreateIssue(p)
        \/ PersistIssue(p)
        \/ MarkRead(p)
        \/ MarkEntry(p)
        \/ Advance(p)
        \/ Return(p)

AnalysisSpec == AnalysisInit /\ [][AnalysisNext]_vars

\* an analysis attempt of p ends with an exception
AnalysisRaised(p) ==
    /\ procs[p].pc \in {"analyze_write", "analyze_request_write", "analyze_rollback"}
    /\ procs'[p].pc = "done"
    /\ procs'[p].ret.error = "exception"

\* C24: when an exception is raised during the analysis of an insight that was
\* moved to ANALYZING, the insight is PENDING again when the attempt has ended, in
\* the analyze endpoint as in the sweep.
C24_AnalyzingRolledBack ==
    [][\A p \in Procs :
        AnalysisRaised(p) => insights'[procs[p].insight].status = I_PENDING]_vars

(***************************************************************************)
(* Repeated sweeps                                                         *)
(***************************************************************************)
\* a sweep would analyse insight i
Analysable(i) ==
    /\ insights[i].status = I_PENDING
    /\ insights[i].github_issue = 0
    /\ get_reddit_entries_by_insight(i) # {}

\* a sweep would create an issue for insight i
Publishable(i) ==
    /\ insights[i].status = I_READY
    /\ get_reddit_entries_by_insight(i) # {}
    /\ early_return(InsightSnapshot(i), get_reddit_entries_by_insight(i)) = NoReturn

\* nothing is left for a sweep to do
Settled ==
    /\ get_ready_reddit_entries = {}
    /\ \A i \in ExistingInsights : ~Analysable(i) /\ ~Publishable(i)

\* the positions of a sweep at which it reads the store and decides
SweepReadPcs == {"sweep_read", "sweep_config", "sweep_pending", "analyze", "sweep_ready",
                 "publish"}

\* p starts a sweep, or is at a reading position of one and has claimed no entry
SweepReads(p) ==
    \/ procs[p].pc \in SweepReadPcs \ {"sweep_config"}
    \/ procs[p].pc = "sweep_config" /\ procs[p].claimed = {}
    \/ IsIdle(p) /\ procs'[p].pc \in {"sweep_claim", "sweep_config"}

CommunityInit ==
    /\ ClaimStoreInit
    /\ procs = [p \in Procs |-> Idle]
    /\ overlaps = 0
    /\ faults = 0
    /\ fnIn = NoCall
    /\ fnOut = Unset

CommunityNext ==
    \E p \in Procs :
        \/ CreatePr(p)
        \/ AskCommunity(p)
        \/ CommunityRead(p)
        \/ CommunityCheck(p)
        \/ Return(p)

CommunitySpec == CommunityInit /\ [][CommunityNext]_vars

\* the approval sweep of p ends its turn on insight i with a fetched reply score
\* of at least the threshold
FetchedApproval(p, i) ==
    /\ procs[p].pc = "community"
    /\ i \in procs[p].todo
    /\ \/ /\ procs'[p].pc = "done"
          /\ procs'[p].ret.error = "exception"
          /\ procs'[p].ret.insight = i
          /\ procs'[p].ret.score[1] >= MIN_SCORE
       \/ /\ insights'[i].community # insights[i].community
          /\ insights'[i].community.community_reply_score >= MIN_SCORE

\* C27: whenever the approval sweep fetches a reply score of at least the
\* threshold, the insight is stored with community_approved = true, with or
\* without a pull request, and the sweep is not aborted.
C27_ApprovalPersisted ==
    [][\A p \in Procs, i \in InsightIds :
        FetchedApproval(p, i) =>
            /\ insights'[i].community.community_approved
            /\ insights'[i].community.community_reply_score >= MIN_SCORE
            /\ procs'[p].pc = "done" => procs'[p].ret.error = ""]_vars

\* C26: once an insight's community_approved flag is true, no approval sweep
\* takes it up again (its reply score is not fetched) and no step changes its
\* community approval fields.
C26_OneWayGate ==
    [][\A p \in Procs, i \in InsightIds :
        insights[i].community.community_approved =>
            /\ insights'[i].community = insights[i].community
            /\ procs'[p].pc = "community" => i \notin procs'[p].todo]_vars

\* no insight is ever stored as approved by the community
NeverCommunityApproved ==
    \A i \in InsightIds : ~insights[i].community.community_approved

(***************************************************************************)
(* AutomationSpec: the handlers that act on insights, automated or driven  *)
(* by a human, and the score refresh, one request at a time, on a store of *)
(* rows in the states the handlers put them in; no call raises             *)
(***************************************************************************)
AutomationNext ==
    \E p \in Procs :
        \/ RefreshRead(p)
        \/ RefreshEntry(p)
        \/ GenerateRead(p)
        \/ GenerateClaim(p)
        \/ GenerateConfig(p)
        \/ SweepRead(p)
        \/ SweepClaim(p)
        \/ SweepConfig(p)
        \/ ClusterSearch(p)
        \/ ClusterWrite(p)
        \/ ClusterEntry(p)
        \/ SweepPending(p)
        \/ AnalyzeBegin(p)
        \/ AnalyzeWrite(p)
        \/ SweepReady(p)
        \/ PublishBegin(p)
        \/ ManualCreateIssue(p)
        \/ CreateIssue(p)
        \/ PersistIssue(p)
        \/ MarkRead(p)
        \/ MarkEntry(p)
        \/ Advance(p)
        \/ AnalyzeRequest(p)
        \/ AnalyzeRequestWrite(p)
        \/ CreatePr(p)
        \/ AskCommunity(p)
        \/ CommunityRead(p)
        \/ CommunityCheck(p)
        \/ ApproveWorkflow(p)
        \/ UpdateInsightStatus(p)
        \/ Return(p)

AutomationSpec == CommunityInit /\ [][AutomationNext]_vars

\* p's step is the request of a human on insight i: approve or reject, or a
\* status update
HumanAction(p, i) ==
    /\ IsIdle(p)
    /\ procs'[p].pc = "done"
    /\ procs'[p].op \in {"approve", "status"}
    /\ procs'[p].ret.insight = i

\* C28: a step that writes APPROVED, CLOSED or COMPLETED on an insight is an
\* approve/reject or a status update sent by a human, and COMPLETED is written by
\* a status update only: no step of the refresh, the clustering, the analysis,
\* the publishing or the community-approval sweep writes one of them.
C28_HumanStatusesOnly ==
    [][\A i \in InsightIds :
        (insights'[i].status # insights[i].status
            /\ insights'[i].status \in {I_APPROVED, I_CLOSED, I_COMPLETED}) =>
        \E p \in Procs :
            /\ HumanAction(p, i)
            /\ insights'[i].status = I_COMPLETED => procs'[p].op = "status"]_vars

\* an analysed insight without issue was approved by the approve request of a human
C28_Witness ==
    \E p \in Procs :
        /\ procs[p].pc = "done"
        /\ procs[p].op = "approve"
        /\ procs[p].ret.action = "approve"
        /\ insights[procs[p].ret.insight].status = I_APPROVED
        /\ insights[procs[p].ret.insight].payloads # None
        /\ insights[procs[p].ret.insight].github_issue = 0

(***************************************************************************)
(* The order of the steps of one issue creation                            *)
(***************************************************************************)
\* the positions of _create_issue_for_insight after its checks, in their order
PublishOrder ==
    <<"create_issue", "persist_issue", "mark_read", "mark_entry", "advance">>

Position(pc) == CHOOSE n \in DOMAIN PublishOrder : PublishOrder[n] = pc

InPublication(l) == l.pc \in {PublishOrder[n] : n \in DOMAIN PublishOrder}

\* no entry of insight i is PROCESSED or has an issue url, before and after the step
NoEntryMarked(i) ==
    \A r \in get_reddit_entries_by_insight(i) :
        /\ reddit_entries[r].status # PROCESSED
        /\ reddit_entries[r].github_issue_url = 0
        /\ reddit_entries'[r].status # PROCESSED
        /\ reddit_entries'[r].github_issue_url = 0

\* the tracker holds issue n for insight i
IssueExists(n, i) == n \in DOMAIN github_issues /\ github_issues[n] = i

C30_AnalyzingOnlyFromPending ==
    [][\A i \in InsightIds :
        (insights'[i].status = I_ANALYZING /\ insights[i].status # I_ANALYZING) =>
            insights[i].status = I_PENDING]_vars

(***************************************************************************)
(* The analysed insight                                                    *)
(***************************************************************************)
\* C31: summary, issue spec, patch plan, priority and READY are written in one
\* update: a READY insight has its three payloads and its priority is the
\* priority of its issue spec.
C31_ReadyIsEnriched ==
    \A i \in InsightIds :
        insights[i].status = I_READY =>
            /\ insights[i].payloads # None
            /\ insights[i].issue_spec
            /\ DOMAIN insights[i].payloads[1] = {"summary", "issue_spec", "patch_plan"}
            /\ insights[i].priority = Some(insights[i].payloads[1].issue_spec.priority)

\* a READY insight analysed without a failing model call: its priority is the
\* one of the issue spec, not the severity of its summary
C31_Witness ==
    \E i \in InsightIds :
        /\ insights[i].status = I_READY
        /\ insights[i].payloads # None
        /\ insights[i].payloads[1].summary.theme = Generated
        /\ insights[i].payloads[1].issue_spec.title = Generated
        /\ insights[i].priority = Some("low")

(***************************************************************************)
(* The score refresh                                                       *)
(***************************************************************************)
\* p takes one turn of the loop of _refresh_pending_scores
RefreshTurn(p) == procs[p].pc = "refresh_entry" /\ procs'[p] # procs[p]

\* the fields of a row a refresh never writes
RefreshFrame(row) ==
    [reddit_id |-> row.reddit_id, theme |-> row.theme, insight_id |-> row.insight_id,
     github_issue_url |-> row.github_issue_url]

RefreshReturned(p) == procs[p].pc = "done" /\ procs[p].op = "refresh"

\* C33: every call of _refresh_pending_scores re-checks every PENDING entry it
\* queried, whatever its last_score_check_at is: each turn writes an entry and
\* counts it as updated, also when the entry had been checked before, and the
\* report has updated = pending_checked, skipped_recent = 0 and ready <= updated.
C33_NoRefreshInterval ==
    /\ [](\A p \in Procs :
            /\ procs[p].pc = "refresh_entry" =>
                /\ procs[p].updated + Cardinality(procs[p].todo) = procs[p].pending_checked
                /\ procs[p].ready <= procs[p].updated
            /\ RefreshReturned(p) =>
                /\ procs[p].ret.updated = procs[p].ret.pending_checked
                /\ procs[p].ret.skipped_recent = 0
                /\ procs[p].ret.ready <= procs[p].ret.updated)
    /\ [][\A p \in Procs :
            /\ (CanStart(p) /\ procs'[p].pc = "refresh_entry") =>
                \A r \in Rows :
                    (reddit_entries[r].reddit_id # 0 /\ reddit_entries[r].status = PENDING
                        /\ reddit_entries[r].checked) => r \in procs'[p].todo
            /\ (RefreshTurn(p) /\ procs'[p].pc = "refresh_entry") =>
                procs'[p].updated = procs[p].updated + 1
            /\ (RefreshTurn(p) /\ RefreshReturned(p)') =>
                procs'[p].ret.updated = procs[p].updated + 1]_vars

\* a refresh reports two entries checked and two updated, one of them below the
\* threshold with its check recorded
C33_Witness ==
    \E p \in Procs :
        /\ RefreshReturned(p)
        /\ procs[p].ret.pending_checked = 2
        /\ procs[p].ret.updated = 2
        /\ procs[p].ret.ready = 1
        /\ \E r \in Rows :
            /\ reddit_entries[r].status = PENDING
            /\ reddit_entries[r].score = Some(MIN_SCORE - 1)
            /\ reddit_entries[r].checked

(***************************************************************************)
(* Failing branch creation and plan upload                                 *)
(***************************************************************************)
\* _ensure_plan_and_pr of p's call meets a failing branch creation or upload
PlanFails(p) == procs[p].pc = "mark_read" /\ faults' < faults

\* C34: a failure of the branch creation or of the plan upload is swallowed:
\* _create_issue_for_insight goes on to mark the entries, and when its store
\* writes succeed every entry is PROCESSED with the issue url, the insight is
\* IN_PROGRESS and the created issue is returned; only the plan sha is unset.
C34_PlanFailureSwallowed ==
    [][\A p \in Procs :
        /\ PlanFails(p) =>
            /\ procs'[p].pc \in {"mark_entry", "advance"}
            /\ procs'[p].issue = procs[p].issue
            /\ procs'[p].plan_metadata.plan_md_path
            /\ UNCHANGED store
        /\ (ReturnsCreated(p) /\ ~procs[p].plan_metadata.plan_md_sha) =>
            LET i == procs[p].insight IN
            /\ insights'[i].status = I_IN_PROGRESS
            /\ insights'[i].github_issue = procs[p].issue
            /\ \A r \in get_reddit_entries_by_insight(i) :
                /\ reddit_entries'[r].status = PROCESSED
                /\ reddit_entries'[r].github_issue_url = procs[p].issue
            /\ procs[p].op = "manual" =>
                /\ procs'[p].ret.error = ""
                /\ procs'[p].ret.issue = procs[p].issue
                /\ procs'[p].ret.plan_metadata.plan_md_path]_vars

\* a create-issue request returned the issue it created although the upload of
\* the plan failed: the entries are PROCESSED, the insight is IN_PROGRESS
C34_Witness ==
    \E p \in Procs :
        /\ procs[p].pc = "done"
        /\ procs[p].op = "manual"
        /\ procs[p].ret.error = ""
        /\ procs[p].ret.issue # 0
        /\ procs[p].ret.plan_metadata.plan_md_path
        /\ ~procs[p].ret.plan_metadata.plan_md_sha
        /\ insights[procs[p].ret.insight].status = I_IN_PROGRESS
        /\ get_reddit_entries_by_insight(procs[p].ret.insight) # {}
        /\ \A r \in get_reddit_entries_by_insight(procs[p].ret.insight) :
            /\ reddit_entries[r].status = PROCESSED
            /\ reddit_entries[r].github_issue_url = procs[p].ret.issue

(***************************************************************************)
(* PrSpec: create-pr requests on a store with published insights and       *)
(* insights generated on request, and should_create_pr on drawn inputs     *)
(***************************************************************************)
ShouldCreatePrInputs ==
    {[fn |-> "should_create_pr", entry |-> [github_pr_url |-> u], enable_pr |-> e] :
        u \in 0 .. MaxInsights, e \in BOOLEAN}

PrInit ==
    /\ ClaimStoreInit
    /\ procs = [p \in Procs |-> Idle]
    /\ overlaps = 0
    /\ faults = 0
    /\ fnIn \in ShouldCreatePrInputs
    /\ fnOut = Unset

ApplyShouldCreatePr ==
    /\ fnIn.fn = "should_create_pr"
    /\ fnOut = Unset
    /\ fnOut' = <<should_create_pr(fnIn.entry, fnIn.enable_pr)>>
    /\ UNCHANGED <<store, procs, overlaps, faults, fnIn>>

PrNext ==
    \/ ApplyShouldCreatePr
    \/ \E p \in Procs :
        \/ GenerateRead(p)
        \/ GenerateClaim(p)
        \/ GenerateConfig(p)
        \/ ClusterSearch(p)
        \/ ClusterWrite(p)
        \/ ClusterEntry(p)
        \/ CreatePr(p)
        \/ Return(p)

PrSpec == PrInit /\ [][PrNext]_vars

\* a create-pr request of p is answered
CreatePrAnswered(p) ==
    /\ CanStart(p)
    /\ procs'[p].pc = "done"
    /\ procs'[p].op = "create_pr"

\* C35: should_create_pr(entry, enable_pr) is true iff enable_pr is true and the
\* entry has no PR url; a create-pr request on an insight that has a pull
\* request returns that pull request, and one on an insight without issue is
\* refused, both without a call to the tracker and without a write to the store.
C35_PrNotRepeated ==
    /\ []((fnIn.fn = "should_create_pr" /\ fnOut # Unset) =>
            fnOut[1] = (fnIn.enable_pr /\ fnIn.entry.github_pr_url = 0))
    /\ [][\A p \in Procs :
            CreatePrAnswered(p) =>
                LET i == procs'[p].ret.insight IN
                /\ (insights[i].github_issue # 0 /\ insights[i].github_pr_number # 0) =>
                    /\ procs'[p].ret.error = ""
                    /\ procs'[p].ret.pr_number = insights[i].github_pr_number
                    /\ procs'[p].ret.calls = <<>>
                    /\ UNCHANGED store
                /\ insights[i].github_issue = 0 =>
                    /\ procs'[p].ret.error # ""
                    /\ procs'[p].ret.pr_number = 0
                    /\ procs'[p].ret.calls = <<>>
                    /\ UNCHANGED store]_vars

\* a create-pr request returned the pull request recorded on the insight, and
\* should_create_pr refused an entry that has a PR url although PRs are enabled
C35_Witness ==
    /\ fnIn.enable_pr
    /\ fnIn.entry.github_pr_url # 0
    /\ fnOut = <<FALSE>>
    /\ \E p \in Procs :
        /\ procs[p].pc = "done"
        /\ procs[p].op = "create_pr"
        /\ procs[p].ret.error = ""
        /\ procs[p].ret.calls = <<>>
        /\ procs[p].ret.pr_number # 0
        /\ insights[procs[p].ret.insight].github_pr_number = procs[p].ret.pr_number

(***************************************************************************)
(* ProgressSpec: sweep after sweep on a configured store with published    *)
(* insights and READY entries; no call fails, and a step that can be taken *)
(* is taken                                                                *)
(***************************************************************************)
ProgressInit ==
    /\ ClaimStoreInit
    /\ \A r \in Rows : reddit_entries[r].status # PROCESSING
    /\ procs = [p \in Procs |-> Idle]
    /\ overlaps = 0
    /\ faults = 0
    /\ fnIn = NoCall
    /\ fnOut = Unset

ProgressNext ==
    \E p \in Procs :
        \/ SweepRead(p)
        \/ SweepClaim(p)
        \/ SweepConfig(p)
        \/ ClusterSearch(p)
        \/ ClusterWrite(p)
        \/ ClusterEntry(p)
        \/ SweepPending(p)
        \/ AnalyzeBegin(p)
        \/ AnalyzeWrite(p)
        \/ SweepReady(p)
        \/ PublishBegin(p)
        \/ CreateIssue(p)
        \/ PersistIssue(p)
        \/ MarkRead(p)
        \/ MarkEntry(p)
        \/ Advance(p)
        \/ Return(p)

ProgressSpec == ProgressInit /\ [][ProgressNext]_vars /\ WF_vars(ProgressNext)

\* C36: under repeated sweeps whose calls succeed, every entry a sweep has moved
\* to PROCESSING is PROCESSED with an issue url later on.
C36_ClaimedEntryIsProcessed ==
    \A r \in Rows :
        (reddit_entries[r].status = PROCESSING)
            ~> (reddit_entries[r].status = PROCESSED /\ reddit_entries[r].github_issue_url # 0)

(***************************************************************************)
(* EntrySpec: every handler that writes an entry, one request at a time,   *)
(* from the empty store; store, tracker and model calls may raise          *)
(***************************************************************************)
EntryInit ==
    /\ StoreInit
    /\ procs = [p \in Procs |-> Idle]
    /\ overlaps = 0
    /\ faults = MaxFaults
    /\ fnIn = NoCall
    /\ fnOut = Unset

EntryNext ==
    \/ PipelineNext
    \/ \E p \in Procs :
        \/ GenerateRead(p)
        \/ GenerateClaim(p)
        \/ GenerateConfig(p)
        \/ CreatePr(p)

EntrySpec == EntryInit /\ [][EntryNext]_vars

\* the edges of the entry status machine
EntryEdges == {<<PENDING, READY>>, <<READY, PROCESSING>>, <<PROCESSING, PROCESSED>>}

\* C37: with one request at a time a new entry is stored PENDING or READY, every
\* change of a stored status is PENDING -> READY, READY -> PROCESSING or
\* PROCESSING -> PROCESSED, PROCESSED is never left, and no entry is ever FAILED
\* or SKIPPED.
C37_EntryStatusEdges ==
    /\ [](\A r \in ExistingRows :
            reddit_entries[r].status \in {PENDING, READY, PROCESSING, PROCESSED})
    /\ [][\A r \in Rows :
            /\ (reddit_entries[r].reddit_id = 0 /\ reddit_entries'[r].reddit_id # 0) =>
                reddit_entries'[r].status \in {PENDING, READY}
            /\ (reddit_entries[r].reddit_id # 0
                    /\ reddit_entries'[r].status # reddit_entries[r].status) =>
                <<reddit_entries[r].status, reddit_entries'[r].status>> \in EntryEdges]_vars

\* one entry has gone all the way to PROCESSED with an issue url while another
\* entry of its insight is PROCESSING
C37_Witness ==
    \E r, q \in ExistingRows :
        /\ reddit_entries[r].status = PROCESSED
        /\ reddit_entries[r].github_issue_url # 0
        /\ reddit_entries[q].status = PROCESSING
        /\ reddit_entries[q].insight_id = reddit_entries[r].insight_id

(***************************************************************************)
(* Clustering                                                              *)
(***************************************************************************)
\* C38: no two insights of the repository share a theme, after any sequence of
\* sweeps, overlapping ones included.
C38_OneInsightPerTheme ==
    \A i, j \in ExistingInsights :
        insights[i].theme = insights[j].theme => i = j

\* no call of generate_insights_from_entries is between its search and the
\* attachment of its last entry
ClusteringComplete ==
    \A p \in Procs : procs[p].pc \notin {"cluster_search", "cluster_write", "cluster_entry"}

\* C39: when no clustering is under way, the entry_count of every insight is the
\* number of entries whose insight_id refers to it.
C39_EntryCountMatches ==
    ClusteringComplete =>
        \A i \in ExistingInsights :
            insights[i].entry_count = Cardinality(get_reddit_entries_by_insight(i))

====
